---- MODULE Spec2Model ----
(***************************************************************************)
(* Ground-truth pipeline of the crawler test sites: the breadth-first      *)
(* crawl of scripts/generate_ground_truth_batch.py ("batch"),               *)
(* scripts/generate_ground_truth.py ("simple") and                          *)
(* tests/utils/crawl_helpers.py ("helper"), with JSON-LD extraction,       *)
(* login and pacing; the tolerance comparators of tests/conftest.py and    *)
(* tests/utils/comparison.py; the JSONL files and their readers; the       *)
(* command line of the generators; the WebSocket crawl stream of           *)
(* sites/websocket-stream-sink/app.py; the rate limiting and sessions of   *)
(* sites/anti-bot-lite.site/app.py; the sliding request log of             *)
(* sites/slowpoke-and-retries.site/app.py; the sessions and CSRF tokens    *)
(* of sites/auth-and-session.site/app.py.                                   *)
(***************************************************************************)
EXTENDS Integers, Sequences, FiniteSets, TLC

(***************************************************************************)
(* Bounds of the model.                                                     *)
(***************************************************************************)
\* largest page budget (max_pages) a crawl is started with
MaxBudget == 3
\* largest number of fetches of one crawl that do not answer 200
MaxFaults == 3
\* largest retry_attempts of a site configuration
MaxRetryAttempts == 3
\* how far an actual count lies from an expected one, at most
MaxDelta == 2

\* status code of a successful fetch (response.status_code == 200)
HTTP_OK == 200
\* a status code other than 200, as answered for a missing page
HTTP_NOT_FOUND == 404
\* config.get('retry_delay', 1)
RETRY_DELAY == 1
\* "rate_limit_delay": 1 of the slowpoke-and-retries site
RATE_LIMIT_DELAY == 1

(***************************************************************************)
(* The site: a finite set of URLs of one authority and, for each, the       *)
(* <a href> targets of its page in document order.                          *)
(***************************************************************************)
Root == "/"
Urls == {"/", "/a", "/b"}
NoUrl == "-"

LinkLists ==
    {<<>>} \cup {<<x>> : x \in Urls} \cup {<<x, y>> : x \in Urls, y \in Urls}

Range(s) == {s[i] : i \in 1..Len(s)}

RECURSIVE ReachFrom(_, _)
ReachFrom(g, seen) ==
    LET next == seen \cup UNION {Range(g[u]) : u \in seen}
    IN  IF next = seen THEN seen ELSE ReachFrom(g, next)

\* the pages reachable from the root by links
Reachable(g) == ReachFrom(g, {Root})

\* a page no link leads to is never fetched: its content is left empty;
\* of two unreachable-from-each-other orderings of "/a" and "/b" one is kept
SiteGraphs ==
    {g \in [Urls -> LinkLists] :
        /\ \A u \in Urls \ Reachable(g) : g[u] = <<>>
        /\ ("/b" \in Reachable(g) /\ "/a" \notin Reachable(g)) = FALSE}

Min(a, b) == IF a < b THEN a ELSE b

(***************************************************************************)
(* URLs beyond the three pages: a redirect source, a binary file, a URL of  *)
(* another port whose text begins with the base URL, and a foreign host.    *)
(* A URL is named by a string and spelled as a sequence of pieces of text;  *)
(* prefix and authority are computed on the spelling.                       *)
(***************************************************************************)
OldUrl == "/old"
PdfUrl == "/f.pdf"
LookAlikeUrl == "http://localhost:50010/"
ForeignUrl == "http://example.org/"
AllUrls == Urls \cup {OldUrl, PdfUrl, LookAlikeUrl, ForeignUrl}

\* self.base_url = f"{base_url}:{self.config['port']}"
BaseUrlText == <<"http://", "localhost", ":", "5001">>

\* the absolute URL urljoin(url, href) yields, piece by piece
UrlText(u) ==
    CASE u = "/"          -> BaseUrlText \o <<"/">>
      [] u = "/a"         -> BaseUrlText \o <<"/", "a">>
      [] u = "/b"         -> BaseUrlText \o <<"/", "b">>
      [] u = OldUrl       -> BaseUrlText \o <<"/", "old">>
      [] u = PdfUrl       -> BaseUrlText \o <<"/", "f", ".pdf">>
      [] u = LookAlikeUrl -> BaseUrlText \o <<"0", "/">>
      [] u = ForeignUrl   -> <<"http://", "example.org", "/">>

\* str.startswith
StartsWith(text, prefix) ==
    /\ Len(text) >= Len(prefix)
    /\ SubSeq(text, 1, Len(prefix)) = prefix

\* the pieces of text up to the first "/" piece
RECURSIVE UpToSlash(_)
UpToSlash(text) ==
    IF text = <<>> \/ Head(text) = "/" THEN <<>>
    ELSE <<Head(text)>> \o UpToSlash(Tail(text))

\* urlparse(url).netloc: what stands between the scheme and the path
Netloc(text) == UpToSlash(Tail(text))

\* path.endswith(ext) for one of the binary_extensions
HasBinaryExtension(text) == text[Len(text)] = ".pdf"

\* the redirects-canonical site answers /old-event/{id} with a 301 to
\* /events/{id}; requests follows it, response.url is the target
FinalUrl(u) == IF u = OldUrl THEN "/a" ELSE u

\* 'html' in response.headers.get("Content-Type", "")
IsHtml(u) == u # PdfUrl

\* link lists over all URLs
AllLinkLists ==
    {<<>>} \cup {<<x>> : x \in AllUrls}
           \cup {<<x, y>> : x \in AllUrls, y \in AllUrls}

(***************************************************************************)
(* JSON-LD: a <script type="application/ld+json"> block is a JSON object    *)
(* with an @type, an array of such objects, a JSON value that is neither,   *)
(* text that is not JSON, or a script element without a string.             *)
(***************************************************************************)
\* "entity_type": "Event" of the site registry
EntityType == "Event"
OtherType == "Person"
JsonObject(type) == [kind |-> "object", types |-> <<type>>]
JsonArray(ts) == [kind |-> "array", types |-> ts]
JsonScalar == [kind |-> "scalar", types |-> <<>>]
InvalidJson == [kind |-> "invalid", types |-> <<>>]
NoString == [kind |-> "none", types |-> <<>>]
Blocks == {JsonObject(EntityType), JsonObject(OtherType),
           JsonArray(<<EntityType, OtherType>>), JsonScalar, InvalidJson,
           NoString}
BlockLists ==
    {<<>>} \cup {<<x>> : x \in Blocks} \cup {<<x, y>> : x \in Blocks, y \in Blocks}

\* an entry of self.entities
EntityRecord(type, u) == [type |-> type, url |-> u]

Impls == {"batch", "simple", "helper"}

VARIABLES
    impl,           \* which crawler runs
    links,          \* the site graph served
    max_pages,      \* the page budget
    retry_attempts, \* config.get('retry_attempts', 1)
    to_visit,       \* FIFO queue of URLs
    visited_urls,   \* self.visited_urls / self.visited
    pages,          \* self.pages, the PageRecords
    pages_crawled,  \* stats["pages_crawled"]
    pages_failed,   \* stats["pages_failed"]
    errors,         \* SimpleCrawler.errors
    stop_reason,    \* stats["stop_reason"]
    pc,             \* "loop" | "fetch" | "done"
    url,            \* the URL popped in this iteration
    attempt,        \* loop index of _fetch_with_retry
    response,       \* the fetch of this iteration: "pending", "received",
                    \* "None" (_fetch_with_retry gave up) or "raised"
    gets,           \* GET requests issued for the URL of this iteration
    sleeps,         \* the retry sleeps of this iteration, in order
    attempted,      \* per URL: how often it was dequeued and its fetch begun
    responded,      \* per URL: how many HTTP responses were received for it
    enqueued,       \* per URL: how often it was appended to to_visit
    faults,         \* fetches so far that did not answer 200
    blocks,         \* per URL: the JSON-LD blocks of its page, in order
    rate_limit_delay, \* config.get('rate_limit_delay', 0)
    auth_required,  \* config.get('auth_required')
    authenticated,  \* self.authenticated
    posts,          \* login POSTs sent so far
    pace_sleeps,    \* the rate-limit sleeps so far, in order
    entities,       \* self.entities, the EntityRecords
    status_code     \* response.status_code of the last response, 0 before

siteVars == <<blocks, rate_limit_delay, auth_required>>
loginVars == <<authenticated, posts>>

crawlVars == <<impl, links, max_pages, retry_attempts, to_visit, visited_urls,
               pages, pages_crawled, pages_failed, errors, stop_reason, pc, url,
               attempt, response, gets, sleeps, attempted, responded, enqueued,
               faults, siteVars, loginVars, pace_sleeps, entities, status_code>>

VARIABLES
    cmp_impl,       \* "fixture" (compare_with_ground_truth) | "engine"
                    \* (ComparisonEngine.compare_stats)
    file_exists,    \* whether the ground-truth file of the site exists
    data_type,      \* "stats" | "pages" | "entities"
    expected,       \* the stored stats dict
    actual,         \* the stats dict under test
    expected_count, \* len(expected) of a stored pages/entities list
    actual_count,   \* len(actual) of the list under test
    tolerance,      \* allowed variance, in percent
    strict,         \* the strict flag of the fixture
    cpc,            \* "idle" | "call" | "returned" | "raised"
    comparison      \* the dict the comparator returned

cmpVars == <<cmp_impl, file_exists, data_type, expected, actual, expected_count,
             actual_count, tolerance, strict, cpc, comparison>>

VARIABLES
    records,        \* self.pages of the generator that saves
    file,           \* the bytes of <site>.pages.jsonl, in order
    preferred_encoding, \* what open() without encoding= decodes with
    reader,         \* "loader" | "validator" | "validate_only"
    loaded,         \* the records the reader returned
    blank_lines,    \* empty lines put into the file after it was saved
    spc             \* "idle" | "ready" | "saved" | "loaded" | "raised"

storeVars == <<records, file, preferred_encoding, reader, loaded, blank_lines,
               spc>>

VARIABLES
    cli_impl,       \* "batch" | "simple": which script's main runs
    flags,          \* args: validate_only, skip_validation, validate
    n_sites,        \* len(sites)
    all_valid,      \* all_valid of main
    results,        \* results of the batch main: the verdict of every site
    site_log,       \* what happened to every site processed so far
    exit_code,      \* the argument of sys.exit, NoExit before
    cli_pc          \* "idle" | "loop" | "exited"

cliVars == <<cli_impl, flags, n_sites, all_valid, results, site_log, exit_code,
             cli_pc>>

VARIABLES
    request,        \* the first message of the client
    total_pages,    \* config["pages"]
    page_num,       \* page_num of the loop of simulate_crawl
    inbox,          \* messages the client sent and the server did not read
    ws_log,         \* the messages received and sent by the server, in order
    stats,          \* stats of simulate_crawl: the three page counters
    client_sent,    \* control messages the client sent so far
    ws_pc           \* "idle" | "accepted" | "check" | "paused" | "page" |
                    \* "complete" | "closed"

wsVars == <<request, total_pages, page_num, inbox, ws_log, stats, client_sent,
            ws_pc>>

VARIABLES
    site_up,          \* which test site serves requests: "none" |
                      \* "anti-bot-lite" | "slowpoke-and-retries" |
                      \* "auth-and-session"
    bot_clock,        \* time.time() of anti-bot-lite, in seconds
    bot_ticks,        \* how often the clock was advanced
    rate_limit_store, \* rate_limit_store: per IP the counters and window starts
    session_store,    \* session_store: per session id the IP and creation time
    bot_next_session, \* the next session id create_session hands out
    bot_response,     \* the last request (its IP, whether its User-Agent
                      \* names a polite crawler, whether its cookie names a
                      \* valid session) and the status of its answer
    recent_passed     \* per IP the times of the requests that check_rate_limit
                      \* let through, as far as they are less than a minute
                      \* older than the last of them

botVars == <<bot_clock, bot_ticks, rate_limit_store, session_store, bot_next_session,
             bot_response, recent_passed>>

VARIABLES
    slow_clock,       \* time.time() of slowpoke-and-retries, in ticks
    slow_ticks,       \* how often the clock was advanced
    rate_limit_state, \* rate_limit_state: per client the request times
    slow_response     \* the last request to /rate-limited and its answer

slowVars == <<slow_clock, slow_ticks, rate_limit_state, slow_response>>

VARIABLES
    auth_clock,       \* datetime.utcnow() of auth-and-session, in seconds
    sessions,         \* sessions: per session id the user and creation time
    csrf_tokens,      \* csrf_tokens: per key ("pre-auth" or a session id) a token
    next_session,     \* the next session id secrets.token_urlsafe yields
    next_token,       \* the next CSRF token secrets.token_urlsafe yields
    form_token,       \* per client the csrf_token of the last login form it got
    logout_sent,      \* the ids of the sessions, live at that time, that
                      \* were sent as cookie of a POST /logout
    auth_response     \* the last request and its answer

authVars == <<auth_clock, sessions, csrf_tokens, next_session,
              next_token, form_token, logout_sent, auth_response>>

\* the variables of the three stateful test sites
srvVars == <<site_up, botVars, slowVars, authVars>>

\* the variables of the parts beside the crawl and the comparators
restVars == <<storeVars, cliVars, wsVars, srvVars>>

vars == <<crawlVars, cmpVars, restVars>>

\* the state GroundTruthGenerator.__init__ leaves, up to the first line of
\* crawl() that is not the login: to_visit = [self.base_url + "/"] is set
\* before the loop, after the login when there is one
CrawlStart ==
    /\ to_visit = (IF auth_required THEN <<>> ELSE <<Root>>)
    /\ visited_urls = {}
    /\ pages = <<>>
    /\ pages_crawled = 0
    /\ pages_failed = 0
    /\ errors = <<>>
    /\ stop_reason = (IF impl = "helper" THEN "n/a" ELSE "completed")
    /\ pc = (IF auth_required THEN "auth" ELSE "loop")
    /\ url = NoUrl
    /\ attempt = 0
    /\ response = "pending"
    /\ gets = 0
    /\ sleeps = <<>>
    /\ attempted = [u \in AllUrls |-> 0]
    /\ responded = [u \in AllUrls |-> 0]
    /\ enqueued = [u \in AllUrls |->
                     IF u = Root /\ ~auth_required THEN 1 ELSE 0]
    /\ faults = 0
    /\ authenticated = FALSE
    /\ posts = 0
    /\ pace_sleeps = <<>>
    /\ entities = <<>>
    /\ status_code = 0

\* a crawl of a site of plain pages: every link graph over the three
\* pages, no JSON-LD, no login, no pacing
CrawlInit ==
    /\ impl \in Impls
    /\ \E g \in SiteGraphs :
          links = [u \in AllUrls |-> IF u \in Urls THEN g[u] ELSE <<>>]
    /\ blocks = [u \in AllUrls |-> <<>>]
    /\ max_pages \in 1..MaxBudget
    /\ retry_attempts \in (IF impl = "batch" THEN 1..MaxRetryAttempts ELSE {1})
    /\ rate_limit_delay = 0
    /\ auth_required = FALSE
    /\ CrawlStart

\* what the root page of a site with content links to
SiteTargets == {"/a", OldUrl, PdfUrl, LookAlikeUrl, ForeignUrl}
RootLinkLists ==
    {<<>>} \cup {<<x>> : x \in SiteTargets}
           \cup {<<x, y>> : x \in SiteTargets, y \in SiteTargets}

\* the entries of the site registry that differ in how the crawl is
\* driven: a plain site, the slow site (retries and pacing), the site
\* with a login
SiteProfiles ==
    {[retry_attempts |-> 1, rate_limit_delay |-> 0, auth_required |-> FALSE],
     [retry_attempts |-> MaxRetryAttempts, rate_limit_delay |-> RATE_LIMIT_DELAY,
      auth_required |-> FALSE],
     [retry_attempts |-> 1, rate_limit_delay |-> 0, auth_required |-> TRUE]}

\* a crawl of a site with content: the root page links to an event page,
\* a redirect to it, a binary file and URLs of other authorities, and
\* carries JSON-LD blocks of every kind; the event page carries one Event
SiteInit ==
    /\ impl \in Impls
    /\ \E rl \in RootLinkLists, al \in {<<>>, <<"/b">>, <<Root>>},
          bl \in BlockLists :
          /\ rl = <<"/a">> \/ bl = <<>>
          /\ links = [u \in AllUrls |->
                        IF u = Root THEN rl ELSE IF u = "/a" THEN al ELSE <<>>]
          /\ blocks = [u \in AllUrls |->
                         IF u = Root THEN bl
                         ELSE IF u = "/a" THEN <<JsonObject(EntityType)>>
                         ELSE <<>>]
    /\ max_pages \in 1..MaxBudget
    /\ \E profile \in SiteProfiles :
          /\ impl # "batch" => profile.retry_attempts = 1
                                 /\ profile.rate_limit_delay = 0
                                 /\ ~profile.auth_required
          /\ retry_attempts = profile.retry_attempts
          /\ rate_limit_delay = profile.rate_limit_delay
          /\ auth_required = profile.auth_required
    /\ CrawlStart

\* an off-by-one budget test: "<=" for "<"
LoopGuardInclusive == to_visit # <<>> /\ Cardinality(visited_urls) <= max_pages

\* while to_visit and len(self.visited_urls) < max_pages
LoopGuard == to_visit # <<>> /\ Cardinality(visited_urls) < max_pages

\* pacing that starts one page late
ShouldPaceAfterSecond ==
    rate_limit_delay > 0 /\ Cardinality(visited_urls) > 1

\* if rate_limit_delay > 0 and len(self.visited_urls) > 0
ShouldPace == rate_limit_delay > 0 /\ Cardinality(visited_urls) > 0

\* the loop head: pop the next URL, skip it when already visited, else
\* sleep when pacing applies and start the fetch
Dequeue ==
    /\ pc = "loop"
    /\ LoopGuard
    /\ to_visit' = Tail(to_visit)
    /\ IF Head(to_visit) \in visited_urls
       THEN /\ UNCHANGED <<pc, url, attempt, response, gets, sleeps, attempted,
                           pace_sleeps>>
       ELSE /\ pace_sleeps' = (IF ShouldPace
                               THEN Append(pace_sleeps, rate_limit_delay)
                               ELSE pace_sleeps)
            /\ pc' = "fetch"
            /\ url' = Head(to_visit)
            /\ attempt' = 0
            /\ response' = "pending"
            /\ gets' = 0
            /\ sleeps' = <<>>
            /\ attempted' = [attempted EXCEPT ![Head(to_visit)] = @ + 1]
    /\ UNCHANGED <<cmpVars, restVars, siteVars, loginVars, impl, links, max_pages,
                   retry_attempts, visited_urls, pages, pages_crawled,
                   pages_failed, errors, stop_reason, responded, enqueued, faults,
                   entities, status_code>>

\* occurrences of u in the queue q
RECURSIVE Count(_, _)
Count(q, u) ==
    IF q = <<>> THEN 0
    ELSE (IF Head(q) = u THEN 1 ELSE 0) + Count(Tail(q), u)

\* "for link in links: if absolute_url not in self.visited_urls:
\*  to_visit.append(absolute_url)"; the helper also requires
\* "link not in to_visit" (inQueueCheck)
RECURSIVE EnqueueLinks(_, _, _, _)
EnqueueLinks(q, ls, vis, inQueueCheck) ==
    IF ls = <<>> THEN q
    ELSE LET l == Head(ls)
             add == l \notin vis /\ (inQueueCheck => l \notin Range(q))
         IN  EnqueueLinks(IF add THEN Append(q, l) ELSE q, Tail(ls), vis,
                          inQueueCheck)

\* the orders list(set(links)) of extract_links may produce: the links
\* without repetition, in any order
DedupOrders(ls) ==
    {s \in AllLinkLists :
        Range(s) = Range(ls) /\ Len(s) = Cardinality(Range(ls))}

\* the PageRecord built from a response
PageRecord(u, status, n) ==
    [requested_url |-> u, status_code |-> status, links_count |-> n]

\* a backoff that doubles with every attempt
RetryDelayDoubling(k) == RETRY_DELAY * (2 ^ k)

\* time.sleep(retry_delay) after failed attempt k: the same delay every time
RetryDelay(k) == RETRY_DELAY

\* what every GET that returns a response does to the bookkeeping of the
\* fetch: one more request, one more response for this URL
Received(status) ==
    /\ gets' = gets + 1
    /\ response' = "received"
    /\ status_code' = status
    /\ responded' = [responded EXCEPT ![url] = @ + 1]
    /\ faults' = IF status = HTTP_OK THEN faults ELSE faults + 1
    /\ enqueued' = [u \in AllUrls |->
                      enqueued[u] + Count(to_visit', u) - Count(to_visit, u)]

\* the <a href> targets of the page a GET of u ends at
PageLinks(u) == IF IsHtml(FinalUrl(u)) THEN links[FinalUrl(u)] ELSE <<>>

\* the JSON-LD blocks of the page a GET of u ends at
PageBlocks(u) == IF IsHtml(FinalUrl(u)) THEN blocks[FinalUrl(u)] ELSE <<>>

\* _should_crawl: the URL text starts with base_url, the path has no
\* binary extension, the scheme is not ws:// or wss://
BatchShouldCrawl(u) ==
    /\ StartsWith(UrlText(u), BaseUrlText)
    /\ ~HasBinaryExtension(UrlText(u))
    /\ ~StartsWith(UrlText(u), <<"ws://">>)
    /\ ~StartsWith(UrlText(u), <<"wss://">>)

\* absolute_url.startswith(self.base_url)
SimpleSameDomain(u) == StartsWith(UrlText(u), BaseUrlText)

\* urlparse(link).netloc == base_domain
HelperSameDomain(u) == Netloc(UrlText(u)) = Netloc(UrlText(Root))

\* the entities of item types ts that pass "entity_type and (entity_type ==
\* expected_type or not expected_type)"
RECURSIVE BatchItems(_, _)
BatchItems(ts, u) ==
    IF ts = <<>> THEN <<>>
    ELSE (IF Head(ts) # "" /\ (Head(ts) = EntityType \/ EntityType = "")
          THEN <<EntityRecord(Head(ts), u)>> ELSE <<>>)
         \o BatchItems(Tail(ts), u)

\* batch _extract_entities: every block in its own try; an object or the
\* items of an array are filtered, anything else raises inside the try and
\* is warned about
RECURSIVE BatchExtractEntities(_, _)
BatchExtractEntities(bs, u) ==
    IF bs = <<>> THEN <<>>
    ELSE (IF Head(bs).kind \in {"object", "array"}
          THEN BatchItems(Head(bs).types, u) ELSE <<>>)
         \o BatchExtractEntities(Tail(bs), u)

\* validate: wrong_types = [e for e in self.entities
\*                         if e.get('type') != expected_type]
WrongTypes(es) == SelectSeq(es, LAMBDA e : e.type # EntityType)

\* simple _extract_entities: json.loads raises JSONDecodeError on invalid
\* text (caught, next block) and TypeError on a script without a string;
\* data.get raises AttributeError on an array or a scalar; the two last
\* leave the function
RECURSIVE SimpleExtractEntities(_, _)
SimpleExtractEntities(bs, u) ==
    IF bs = <<>> THEN [found |-> <<>>, raised |-> FALSE]
    ELSE LET b == Head(bs)
             rest == SimpleExtractEntities(Tail(bs), u)
         IN  CASE b.kind = "invalid" -> rest
               [] b.kind \in {"none", "array", "scalar"} ->
                    [found |-> <<>>, raised |-> TRUE]
               [] b.kind = "object" ->
                    [found |-> (IF b.types[1] = EntityType
                                THEN <<EntityRecord(b.types[1], u)>>
                                ELSE <<>>) \o rest.found,
                     raised |-> rest.raised]

\* a crawl that never records a URL as visited
MarkVisitedNever(visited, u) == visited

\* self.visited_urls.add(url) (visited.add(url) in the other two crawlers)
MarkVisited(visited, u) == visited \cup {u}

\* batch crawl: _fetch_with_retry returned a response; the rest of the
\* iteration runs (visited set, PageRecord, counters, links)
BatchResponse(status) ==
    /\ impl = "batch" /\ pc = "fetch"
    /\ status # HTTP_OK => faults < MaxFaults
    /\ visited_urls' = MarkVisited(visited_urls, url)
    /\ IF status = HTTP_OK
       THEN /\ pages_crawled' = pages_crawled + 1
            /\ to_visit' = EnqueueLinks(to_visit,
                                        SelectSeq(PageLinks(url), BatchShouldCrawl),
                                        visited_urls', FALSE)
            /\ entities' = entities
                             \o BatchExtractEntities(PageBlocks(url), FinalUrl(url))
            /\ pages' = Append(pages, PageRecord(url, status, Len(PageLinks(url))))
            /\ UNCHANGED pages_failed
       ELSE /\ pages' = Append(pages, PageRecord(url, status, 0))
            /\ pages_failed' = pages_failed + 1
            /\ UNCHANGED <<pages_crawled, to_visit, entities>>
    /\ Received(status)
    /\ pc' = "loop"
    /\ UNCHANGED <<cmpVars, restVars, siteVars, loginVars, impl, links, max_pages,
                   retry_attempts, errors, stop_reason, url, attempt, sleeps,
                   attempted, pace_sleeps>>

\* batch crawl: session.get raised inside _fetch_with_retry (a Timeout or
\* any other exception: both handlers do the same)
BatchFetchFails(kind) ==
    /\ impl = "batch" /\ pc = "fetch"
    /\ faults < MaxFaults
    /\ gets' = gets + 1
    /\ faults' = faults + 1
    /\ IF attempt < retry_attempts - 1
       THEN \* time.sleep(retry_delay), then the next attempt
            /\ sleeps' = Append(sleeps, RetryDelay(attempt))
            /\ attempt' = attempt + 1
            /\ UNCHANGED <<pc, response>>
       ELSE \* "return None"; in crawl: "if response is None: continue"
            /\ pc' = "loop"
            /\ response' = "None"
            /\ UNCHANGED <<sleeps, attempt>>
    /\ UNCHANGED <<cmpVars, restVars, siteVars, loginVars, pace_sleeps, entities,
                   status_code, impl, links, max_pages, retry_attempts, to_visit,
                   visited_urls, pages, pages_crawled, pages_failed, errors,
                   stop_reason, url, attempted, responded, enqueued>>

\* simple crawl: session.get returned a response
SimpleResponse(status) ==
    /\ impl = "simple" /\ pc = "fetch"
    /\ status # HTTP_OK => faults < MaxFaults
    /\ visited_urls' = MarkVisited(visited_urls, url)
    /\ IF status = HTTP_OK
       THEN /\ pages_crawled' = pages_crawled + 1
            /\ to_visit' = EnqueueLinks(to_visit,
                                        SelectSeq(PageLinks(url), SimpleSameDomain),
                                        visited_urls', FALSE)
            /\ LET x == SimpleExtractEntities(PageBlocks(url), FinalUrl(url))
               IN  /\ entities' = entities \o x.found
                   /\ IF x.raised
                      THEN \* the exception reaches "except Exception" of
                           \* crawl before self.pages.append(page_data)
                           /\ pages_failed' = pages_failed + 1
                           /\ UNCHANGED pages
                      ELSE /\ pages' = Append(pages,
                                   PageRecord(url, status, Len(PageLinks(url))))
                           /\ UNCHANGED pages_failed
       ELSE /\ pages_failed' = pages_failed + 1
            /\ UNCHANGED <<pages_crawled, to_visit, pages, entities>>
    /\ Received(status)
    /\ pc' = "loop"
    /\ UNCHANGED <<cmpVars, restVars, siteVars, loginVars, impl, links, max_pages,
                   retry_attempts, errors, stop_reason, url, attempt, sleeps,
                   attempted, pace_sleeps>>

\* simple crawl: session.get raised; "except Exception" counts a failure
SimpleFetchFails ==
    /\ impl = "simple" /\ pc = "fetch"
    /\ faults < MaxFaults
    /\ gets' = gets + 1
    /\ faults' = faults + 1
    /\ response' = "raised"
    /\ pages_failed' = pages_failed + 1
    /\ pc' = "loop"
    /\ UNCHANGED <<cmpVars, restVars, siteVars, loginVars, pace_sleeps, entities,
                   status_code, impl, links, max_pages, retry_attempts, to_visit,
                   visited_urls, pages, pages_crawled, errors, stop_reason, url,
                   attempt, sleeps, attempted, responded, enqueued>>

\* SimpleCrawler: session.get returned a response
HelperResponse(status) ==
    /\ impl = "helper" /\ pc = "fetch"
    /\ status # HTTP_OK => faults < MaxFaults
    /\ visited_urls' = MarkVisited(visited_urls, url)
    /\ IF status = HTTP_OK
       THEN \E order \in DedupOrders(PageLinks(url)) :
              /\ to_visit' = EnqueueLinks(to_visit,
                                          SelectSeq(order, HelperSameDomain),
                                          visited_urls', TRUE)
              /\ pages' = Append(pages, PageRecord(url, status, Len(order)))
       ELSE /\ pages' = Append(pages, PageRecord(url, status, 0))
            /\ UNCHANGED to_visit
    /\ Received(status)
    /\ pc' = "loop"
    /\ UNCHANGED <<cmpVars, restVars, siteVars, loginVars, impl, links, max_pages,
                   retry_attempts, pages_crawled, pages_failed, errors,
                   stop_reason, url, attempt, sleeps, attempted, pace_sleeps,
                   entities>>

\* SimpleCrawler: session.get raised; the error is appended to self.errors
HelperFetchFails ==
    /\ impl = "helper" /\ pc = "fetch"
    /\ faults < MaxFaults
    /\ gets' = gets + 1
    /\ faults' = faults + 1
    /\ response' = "raised"
    /\ errors' = Append(errors, url)
    /\ pc' = "loop"
    /\ UNCHANGED <<cmpVars, restVars, siteVars, loginVars, pace_sleeps, entities,
                   status_code, impl, links, max_pages, retry_attempts, to_visit,
                   visited_urls, pages, pages_crawled, pages_failed, stop_reason,
                   url, attempt, sleeps, attempted, responded, enqueued>>

\* the loop of a generator ends: "if len(self.visited_urls) >= max_pages:
\* self.stats["stop_reason"] = "max_pages""
Finish ==
    /\ impl \in {"batch", "simple"} /\ pc = "loop"
    /\ ~LoopGuard
    /\ pc' = "done"
    /\ stop_reason' =
         IF Cardinality(visited_urls) >= max_pages THEN "max_pages"
         ELSE stop_reason
    /\ UNCHANGED <<cmpVars, restVars, siteVars, loginVars, pace_sleeps, entities,
                   status_code, impl, links, max_pages, retry_attempts, to_visit,
                   visited_urls, pages, pages_crawled, pages_failed, errors,
                   url, attempt, response, gets, sleeps, attempted, responded,
                   enqueued, faults>>

\* the loop of SimpleCrawler.crawl ends and the result dict is returned
HelperReturn ==
    /\ impl = "helper" /\ pc = "loop"
    /\ ~LoopGuard
    /\ pc' = "done"
    /\ UNCHANGED <<cmpVars, restVars, siteVars, loginVars, pace_sleeps, entities,
                   status_code, impl, links, max_pages, retry_attempts, to_visit,
                   visited_urls, pages, pages_crawled, pages_failed, errors,
                   stop_reason, url, attempt, response, gets, sleeps, attempted,
                   responded, enqueued, faults>>

\* a crawl that gives up when the login failed
AfterLoginAbort(ok) ==
    IF ok THEN [pc |-> "loop", to_visit |-> <<Root>>]
    ELSE [pc |-> "done", to_visit |-> <<>>]

\* crawl() after authenticate(): "Continuing without authentication" is
\* only printed; to_visit = [self.base_url + "/"] and the loop follow
AfterLogin(ok) == [pc |-> "loop", to_visit |-> <<Root>>]

\* what the one call of authenticate() leaves behind
LoggedIn(ok) ==
    /\ posts' = posts + 1
    /\ authenticated' = ok
    /\ pc' = AfterLogin(ok).pc
    /\ to_visit' = AfterLogin(ok).to_visit
    /\ enqueued' = [u \in AllUrls |->
                      enqueued[u] + Count(to_visit', u) - Count(to_visit, u)]
    /\ UNCHANGED <<cmpVars, restVars, siteVars, pace_sleeps, entities, status_code, impl,
                   links, max_pages, retry_attempts, visited_urls, pages,
                   pages_crawled, pages_failed, errors, stop_reason, url,
                   attempt, response, gets, sleeps, attempted, responded,
                   faults>>

\* authenticate(): session.post returned; 200 sets self.authenticated
AuthResponse(status) ==
    /\ impl = "batch" /\ pc = "auth"
    /\ LoggedIn(status = HTTP_OK)

\* authenticate(): session.post raised; "except Exception: return False"
AuthRaises ==
    /\ impl = "batch" /\ pc = "auth"
    /\ LoggedIn(FALSE)

(***************************************************************************)
(* The comparators.  A stats dict maps each key to a tagged value: a       *)
(* number, a string, None, or the mark of a key the dict does not hold.     *)
(* The tolerance is kept in percent, so that "x > e * tolerance" reads      *)
(* "100 * x > e * tolerance" in integers.                                   *)
(***************************************************************************)
Num(n) == [t |-> "num", v |-> n]
Str(x) == [t |-> "str", v |-> x]
None == [t |-> "none", v |-> "None"]
Absent == [t |-> "absent", v |-> "-"]

\* the keys of a stats file, in the order save() writes them
StatKeys == <<"pages_crawled", "pages_failed", "stop_reason">>
NumericKeys == {"pages_crawled", "pages_failed"}

ExpectedNums == {0, 10, 20}
ActualNums == {n \in {e + d : e \in ExpectedNums, d \in (0 - MaxDelta)..MaxDelta} : n >= 0}
StopReasons == {Str("completed"), Str("max_pages")}
\* tolerance=0.05 (default), tolerance=0.10 (tests), and none
Tolerances == {0, 5, 10}

ExpectedDicts ==
    [pages_crawled : {Num(n) : n \in ExpectedNums},
     pages_failed : {Num(n) : n \in ExpectedNums},
     stop_reason : StopReasons]
ActualDicts ==
    [pages_crawled : {Num(n) : n \in ActualNums} \cup {None, Absent},
     pages_failed : {Num(n) : n \in ActualNums} \cup {None, Absent},
     stop_reason : StopReasons \cup {None, Absent}]

NoDict == [pages_crawled |-> Absent, pages_failed |-> Absent, stop_reason |-> Absent]
NoComparison == [status |-> "-", passed |-> FALSE, differences |-> <<>>]

Abs(x) == IF x < 0 THEN 0 - x ELSE x

\* isinstance(expected_value, (int, float))
IsNumber(x) == x.t = "num"
\* Python's == on two values of the dicts
PyEq(a, b) == a.t = b.t /\ a.v = b.v
\* key in actual
HasKey(d, k) == d[k].t # "absent"
\* actual.get(key)
Get(d, k) == IF HasKey(d, k) THEN d[k] ELSE None

\* a tolerance test that forgets the tolerance: any deviation is too far
TooFarExact(a, e, tol) == a # e

\* abs(actual_value - expected_value) > abs(expected_value * tolerance)
TooFar(a, e, tol) == 100 * Abs(a - e) > Abs(e * tol)

\* the stats branch of compare_with_ground_truth: the differences list
RECURSIVE FixtureStatsDiffs(_, _, _, _)
FixtureStatsDiffs(keys, act, exp, tol) ==
    IF keys = <<>> THEN <<>>
    ELSE LET key == Head(keys)
             actual_value == Get(act, key)
             expected_value == exp[key]
             differs ==
                 IF IsNumber(expected_value)
                 THEN actual_value.t = "none"
                        \/ TooFar(actual_value.v, expected_value.v, tol)
                 ELSE ~PyEq(actual_value, expected_value)
         IN  (IF differs
              THEN <<[key |-> key, expected |-> expected_value,
                      actual |-> actual_value]>>
              ELSE <<>>) \o FixtureStatsDiffs(Tail(keys), act, exp, tol)

\* the pages/entities branch: only the counts are compared, within
\* allowed_diff = int(expected_count * tolerance)
FixtureListDiffs(ac, ec, tol) ==
    IF Abs(ac - ec) > (ec * tol) \div 100
    THEN <<[key |-> "count_mismatch", expected |-> Num(ec), actual |-> Num(ac)]>>
    ELSE <<>>

\* ground_truth_loader: None when the file does not exist
GroundTruthFound == file_exists

\* a status resolution that ignores strict
StatusOfAlwaysWarning(diffs, isStrict) ==
    IF diffs = <<>> THEN "pass" ELSE "warning"

\* "fail" if strict else "warning", when there are differences
StatusOf(diffs, isStrict) ==
    IF diffs = <<>> THEN "pass" ELSE IF isStrict THEN "fail" ELSE "warning"

\* compare_with_ground_truth(actual, site_name, data_type, tolerance, strict)
FixtureCompare ==
    /\ cmp_impl = "fixture" /\ cpc = "call"
    /\ IF ~GroundTruthFound
       THEN comparison' = [status |-> "no_ground_truth", passed |-> FALSE,
                           differences |-> <<>>]
       ELSE LET diffs == IF data_type = "stats"
                         THEN FixtureStatsDiffs(StatKeys, actual, expected, tolerance)
                         ELSE FixtureListDiffs(actual_count, expected_count, tolerance)
            IN  comparison' = [status |-> StatusOf(diffs, strict),
                               passed |-> diffs = <<>>,
                               differences |-> diffs]
    /\ cpc' = "returned"
    /\ UNCHANGED <<crawlVars, restVars, cmp_impl, file_exists, data_type, expected, actual,
                   expected_count, actual_count, tolerance, strict>>

\* ComparisonEngine.compare_stats evaluates abs(actual_value - expected_value)
\* for a key that actual holds with the value None: a TypeError
EngineRaises(act, exp) ==
    \E i \in 1..Len(StatKeys) :
        /\ HasKey(act, StatKeys[i])
        /\ IsNumber(exp[StatKeys[i]])
        /\ act[StatKeys[i]].t # "num"

\* ComparisonEngine.compare_stats: the differences list
RECURSIVE EngineStatsDiffs(_, _, _, _)
EngineStatsDiffs(keys, act, exp, tol) ==
    IF keys = <<>> THEN <<>>
    ELSE LET key == Head(keys)
             differs ==
                 IF ~HasKey(act, key) THEN TRUE
                 ELSE IF IsNumber(exp[key])
                      THEN TooFar(act[key].v, exp[key].v, tol)
                      ELSE ~PyEq(act[key], exp[key])
         IN  (IF differs
              THEN <<[key |-> key, expected |-> exp[key], actual |-> act[key]]>>
              ELSE <<>>) \o EngineStatsDiffs(Tail(keys), act, exp, tol)

\* ComparisonEngine(tolerance).compare_stats(actual, expected)
EngineCompareStats ==
    /\ cmp_impl = "engine" /\ cpc = "call"
    /\ IF EngineRaises(actual, expected)
       THEN /\ cpc' = "raised"
            /\ UNCHANGED comparison
       ELSE LET diffs == EngineStatsDiffs(StatKeys, actual, expected, tolerance)
            IN  /\ comparison' = [status |-> "-", passed |-> Len(diffs) = 0,
                                  differences |-> diffs]
                /\ cpc' = "returned"
    /\ UNCHANGED <<crawlVars, restVars, cmp_impl, file_exists, data_type, expected, actual,
                   expected_count, actual_count, tolerance, strict>>

\* no comparison is under way
(***************************************************************************)
(* The JSONL files.  Text is a sequence of characters, a file a sequence   *)
(* of bytes; an ASCII character and its byte bear the same name.  A stored *)
(* record maps each key to a tagged value, as the stats dicts do.          *)
(***************************************************************************)
\* most PageRecords saved to one file
MaxRecords == 2
\* most empty lines put into a saved file
MaxBlankLines == 1

Quote == "\""
Backslash == "\\"
Newline == "\n"
Space == " "
\* a character outside ASCII, the two bytes UTF-8 spells it with, and the
\* two characters Latin-1 reads these bytes as
EAcute == "e-acute"
ByteC3 == "0xC3"
ByteA9 == "0xA9"
ATilde == "A-tilde"
Copyright == "copyright-sign"

\* the strings a field of a PageRecord holds
StringValues ==
    {<<>>, <<"a">>, <<Quote>>, <<Backslash>>, <<Newline>>, <<EAcute>>,
     <<Backslash, "n">>, <<"a", EAcute>>}

\* page_data of crawl(): the keys, in the order of the dict
PageKeys == <<"requested_url", "status_code", "canonical_url">>

StoredPages ==
    [requested_url : {Str(x) : x \in StringValues},
     status_code : {Num(HTTP_OK), Num(HTTP_NOT_FOUND)},
     canonical_url : {None, Str(<<"a">>)}]

RecordLists == UNION {[1..n -> StoredPages] : n \in 0..MaxRecords}

\* concatenation of a sequence of sequences
RECURSIVE Flatten(_)
Flatten(ss) == IF ss = <<>> THEN <<>> ELSE Head(ss) \o Flatten(Tail(ss))

\* json.dumps of one character of a string, ensure_ascii=False
EscapeChar(c) ==
    CASE c = Quote     -> <<Backslash, Quote>>
      [] c = Backslash -> <<Backslash, Backslash>>
      [] c = Newline   -> <<Backslash, "n">>
      [] OTHER         -> <<c>>

\* json.dumps of a str
DumpsString(x) ==
    <<Quote>> \o Flatten([i \in 1..Len(x) |-> EscapeChar(x[i])]) \o <<Quote>>

\* json.dumps of a value: a str, an int or None
DumpsValue(v) ==
    CASE v.t = "str"  -> DumpsString(v.v)
      [] v.t = "num"  -> <<ToString(v.v)>>
      [] v.t = "none" -> <<"null">>

\* json.dumps(page, ensure_ascii=False): the members in the order of the
\* keys, separated by ", ", key and value by ": "
RECURSIVE DumpsMembers(_, _)
DumpsMembers(page, keys) ==
    IF keys = <<>> THEN <<>>
    ELSE DumpsString(<<Head(keys)>>) \o <<":", Space>>
         \o DumpsValue(page[Head(keys)])
         \o (IF Tail(keys) = <<>> THEN <<>> ELSE <<",", Space>>)
         \o DumpsMembers(page, Tail(keys))

Dumps(page) == <<"{">> \o DumpsMembers(page, PageKeys) \o <<"}">>

\* text.encode('utf-8')
Utf8Encode(text) ==
    Flatten([i \in 1..Len(text) |->
               IF text[i] = EAcute THEN <<ByteC3, ByteA9>> ELSE <<text[i]>>])

\* bytes.decode('utf-8') of bytes UTF-8 wrote
RECURSIVE Utf8Decode(_)
Utf8Decode(bytes) ==
    IF bytes = <<>> THEN <<>>
    ELSE IF Head(bytes) = ByteC3 /\ Len(bytes) >= 2 /\ bytes[2] = ByteA9
         THEN <<EAcute>> \o Utf8Decode(Tail(Tail(bytes)))
         ELSE <<Head(bytes)>> \o Utf8Decode(Tail(bytes))

\* bytes.decode('latin-1'): one character for every byte
Latin1Decode(bytes) ==
    [i \in 1..Len(bytes) |->
       CASE bytes[i] = ByteC3 -> ATilde
         [] bytes[i] = ByteA9 -> Copyright
         [] OTHER -> bytes[i]]

Decode(bytes, encoding) ==
    IF encoding = "utf-8" THEN Utf8Decode(bytes) ELSE Latin1Decode(bytes)

\* "for line in f": the text cut after every newline, each line with its
\* newline, a last line without one if the text does not end with one
RECURSIVE SplitLines(_, _)
SplitLines(text, line) ==
    IF text = <<>> THEN (IF line = <<>> THEN <<>> ELSE <<line>>)
    ELSE IF Head(text) = Newline
         THEN <<Append(line, Newline)>> \o SplitLines(Tail(text), <<>>)
         ELSE SplitLines(Tail(text), Append(line, Head(text)))

IsWhitespace(c) == c \in {Space, Newline}

\* line.strip() is empty
IsBlank(line) == \A i \in 1..Len(line) : IsWhitespace(line[i])

\* the characters of a JSON string from position i (after the opening
\* quote) to its closing quote, unescaped, and the position after it
RECURSIVE ReadChars(_, _)
ReadChars(text, i) ==
    IF text[i] = Quote THEN [v |-> <<>>, next |-> i + 1]
    ELSE IF text[i] = Backslash
         THEN LET rest == ReadChars(text, i + 2)
                  c == IF text[i + 1] = "n" THEN Newline ELSE text[i + 1]
              IN  [v |-> <<c>> \o rest.v, next |-> rest.next]
         ELSE LET rest == ReadChars(text, i + 1)
              IN  [v |-> <<text[i]>> \o rest.v, next |-> rest.next]

\* the JSON value that starts at position i, and the position after it
ReadValue(text, i) ==
    IF text[i] = Quote
    THEN LET x == ReadChars(text, i + 1) IN [v |-> Str(x.v), next |-> x.next]
    ELSE IF text[i] = "null" THEN [v |-> None, next |-> i + 1]
    ELSE [v |-> Num(CHOOSE n \in {HTTP_OK, HTTP_NOT_FOUND} : ToString(n) = text[i]),
          next |-> i + 1]

\* position of the first character at or after i that is no whitespace
RECURSIVE SkipWhitespace(_, _)
SkipWhitespace(text, i) ==
    IF i <= Len(text) /\ IsWhitespace(text[i]) THEN SkipWhitespace(text, i + 1)
    ELSE i

\* the members of a JSON object from position i (a key) on
RECURSIVE ReadMembers(_, _)
ReadMembers(text, i) ==
    LET key == ReadChars(text, i + 1)
        colon == SkipWhitespace(text, key.next)
        val == ReadValue(text, SkipWhitespace(text, colon + 1))
        after == SkipWhitespace(text, val.next)
        member == key.v[1] :> val.v
    IN  IF text[after] = ","
        THEN member @@ ReadMembers(text, SkipWhitespace(text, after + 1))
        ELSE member

\* json.loads accepts the line: an object follows the leading whitespace
IsJson(line) ==
    LET i == SkipWhitespace(line, 1) IN i <= Len(line) /\ line[i] = "{"

\* json.loads(line) of a line that holds one JSON object
Loads(line) ==
    ReadMembers(line, SkipWhitespace(line, SkipWhitespace(line, 1) + 1))

\* GroundTruthGenerator.save: every page as one line, written as UTF-8
Save ==
    /\ spc = "ready"
    /\ file' = Utf8Encode(Flatten([i \in 1..Len(records) |->
                                     Dumps(records[i]) \o <<Newline>>]))
    /\ spc' = "saved"
    /\ UNCHANGED <<crawlVars, cmpVars, cliVars, wsVars, srvVars, records, preferred_encoding, reader,
                   loaded, blank_lines>>

\* the starts of the lines of a file, and its end
LineStarts(bytes) ==
    {1} \cup {i + 1 : i \in {j \in 1..Len(bytes) : bytes[j] = Newline}}

\* the file is edited by hand: an empty line, or a line of one space, is
\* put between two lines, before the first or after the last
InsertEmptyLine(blank) ==
    /\ spc = "saved"
    /\ blank_lines < MaxBlankLines
    /\ \E at \in LineStarts(file) :
          file' = SubSeq(file, 1, at - 1) \o blank \o SubSeq(file, at, Len(file))
    /\ blank_lines' = blank_lines + 1
    /\ UNCHANGED <<crawlVars, cmpVars, cliVars, wsVars, srvVars, records, preferred_encoding, reader,
                   loaded, spc>>

\* what a reader that skips blank lines returns for the text
NonBlankRecords(text) ==
    LET lines == SelectSeq(SplitLines(text, <<>>), LAMBDA l : ~IsBlank(l))
    IN  [i \in 1..Len(lines) |-> Loads(lines[i])]

\* ground_truth_loader: open(file_path, 'r') and
\* [json.loads(line) for line in f if line.strip()]
LoaderLoad ==
    /\ spc = "saved" /\ reader = "loader"
    /\ loaded' = NonBlankRecords(Decode(file, preferred_encoding))
    /\ spc' = "loaded"
    /\ UNCHANGED <<crawlVars, cmpVars, cliVars, wsVars, srvVars, records, file, preferred_encoding,
                   reader, blank_lines>>

\* _validate_pages_file: open(..., encoding='utf-8'); "if not
\* line.strip(): continue"; pages.append(json.loads(line))
ValidatorRead ==
    /\ spc = "saved" /\ reader = "validator"
    /\ loaded' = NonBlankRecords(Decode(file, "utf-8"))
    /\ spc' = "loaded"
    /\ UNCHANGED <<crawlVars, cmpVars, cliVars, wsVars, srvVars, records, file, preferred_encoding,
                   reader, blank_lines>>

\* main, --validate-only: open(..., encoding='utf-8') and
\* generator.pages = [json.loads(line) for line in f]; json.loads raises
\* on a line that holds no JSON
ValidateOnlyLoad ==
    /\ spc = "saved" /\ reader = "validate_only"
    /\ LET lines == SplitLines(Decode(file, "utf-8"), <<>>)
       IN  IF \A i \in 1..Len(lines) : IsJson(lines[i])
           THEN /\ loaded' = [i \in 1..Len(lines) |-> Loads(lines[i])]
                /\ spc' = "loaded"
           ELSE /\ spc' = "raised"
                /\ UNCHANGED loaded
    /\ UNCHANGED <<crawlVars, cmpVars, cliVars, wsVars, srvVars, records, file, preferred_encoding,
                   reader, blank_lines>>

\* a generator holds its pages, no file is written yet
StoreInit ==
    /\ records \in RecordLists
    /\ file = <<>>
    /\ preferred_encoding \in {"utf-8", "latin-1"}
    /\ reader \in {"loader", "validator", "validate_only"}
    /\ loaded = <<>>
    /\ blank_lines = 0
    /\ spc = "ready"

StoreIdle ==
    /\ records = <<>> /\ file = <<>> /\ preferred_encoding = "utf-8"
    /\ reader = "loader" /\ loaded = <<>> /\ blank_lines = 0
    /\ spc = "idle"

(***************************************************************************)
(* The command line of the two generator scripts: main processes the       *)
(* sites one after the other and exits with 0 or 1.                        *)
(***************************************************************************)
\* most sites one run processes
MaxSites == 2

NoExit == 0 - 1
\* sys.exit(0)
EXIT_OK == 0
\* sys.exit(1)
EXIT_FAILED == 1

\* what processing a site meets: whether its three files exist, whether a
\* step before validation raises (constructor, crawl, save, load), whether
\* validate raises, what validate returns
SiteOutcomes ==
    [files_exist : BOOLEAN, raises : BOOLEAN, validate_raises : BOOLEAN,
     valid : BOOLEAN]

\* an entry of site_log
SiteEvent(missing, raised, validated, valid) ==
    [missing |-> missing, raised |-> raised, validated |-> validated,
     valid |-> valid]

\* a main that keeps only the verdict of the last site
AllValidOfLastSite(before, valid) == valid

\* all_valid = all_valid and valid
AllValidAnd(before, valid) == before /\ valid

\* batch main, --validate-only: one iteration of "for site_name in sites"
BatchValidateOnly(o) ==
    /\ cli_pc = "loop" /\ cli_impl = "batch" /\ flags.validate_only
    /\ Len(site_log) < n_sites
    /\ IF o.raises /\ ~o.files_exist
       THEN \* the constructor raised: except Exception
            /\ all_valid' = FALSE
            /\ results' = Append(results, FALSE)
            /\ site_log' = Append(site_log, SiteEvent(FALSE, TRUE, FALSE, FALSE))
       ELSE IF ~o.files_exist
       THEN \* "Missing files": all_valid = False; continue
            /\ all_valid' = FALSE
            /\ results' = Append(results, FALSE)
            /\ site_log' = Append(site_log, SiteEvent(TRUE, FALSE, FALSE, FALSE))
       ELSE IF o.raises \/ o.validate_raises
       THEN \* a load or validate raised: except Exception
            /\ all_valid' = FALSE
            /\ results' = Append(results, FALSE)
            /\ site_log' = Append(site_log, SiteEvent(FALSE, TRUE, FALSE, FALSE))
       ELSE /\ all_valid' = AllValidAnd(all_valid, o.valid)
            /\ results' = Append(results, o.valid)
            /\ site_log' = Append(site_log, SiteEvent(FALSE, FALSE, TRUE, o.valid))
    /\ UNCHANGED <<crawlVars, cmpVars, storeVars, wsVars, srvVars, cli_impl, flags,
                   n_sites, exit_code, cli_pc>>

\* batch main, generate mode: crawl, save, validate unless
\* --skip-validation
BatchGenerate(o) ==
    /\ cli_pc = "loop" /\ cli_impl = "batch" /\ ~flags.validate_only
    /\ Len(site_log) < n_sites
    /\ IF o.raises \/ (~flags.skip_validation /\ o.validate_raises)
       THEN /\ all_valid' = FALSE
            /\ results' = Append(results, FALSE)
            /\ site_log' = Append(site_log, SiteEvent(FALSE, TRUE, FALSE, FALSE))
       ELSE IF ~flags.skip_validation
       THEN /\ all_valid' = AllValidAnd(all_valid, o.valid)
            /\ results' = Append(results, o.valid)
            /\ site_log' = Append(site_log, SiteEvent(FALSE, FALSE, TRUE, o.valid))
       ELSE \* "Generated (validation skipped)"
            /\ results' = Append(results, TRUE)
            /\ site_log' = Append(site_log, SiteEvent(FALSE, FALSE, FALSE, FALSE))
            /\ UNCHANGED all_valid
    /\ UNCHANGED <<crawlVars, cmpVars, storeVars, wsVars, srvVars, cli_impl, flags,
                   n_sites, exit_code, cli_pc>>

\* simple main: crawl, save, validate with --validate
SimpleGenerate(o) ==
    /\ cli_pc = "loop" /\ cli_impl = "simple"
    /\ Len(site_log) < n_sites
    /\ IF o.raises \/ (flags.validate /\ o.validate_raises)
       THEN /\ all_valid' = FALSE
            /\ site_log' = Append(site_log, SiteEvent(FALSE, TRUE, FALSE, FALSE))
       ELSE IF flags.validate
       THEN /\ all_valid' = AllValidAnd(all_valid, o.valid)
            /\ site_log' = Append(site_log, SiteEvent(FALSE, FALSE, TRUE, o.valid))
       ELSE /\ site_log' = Append(site_log, SiteEvent(FALSE, FALSE, FALSE, FALSE))
            /\ UNCHANGED all_valid
    /\ UNCHANGED <<crawlVars, cmpVars, storeVars, wsVars, srvVars, cli_impl, flags,
                   n_sites, results, exit_code, cli_pc>>

\* batch main after the loop: the summary, sys.exit(0) or sys.exit(1)
BatchExit ==
    /\ cli_pc = "loop" /\ cli_impl = "batch"
    /\ Len(site_log) = n_sites
    /\ exit_code' = (IF all_valid THEN EXIT_OK ELSE EXIT_FAILED)
    /\ cli_pc' = "exited"
    /\ UNCHANGED <<crawlVars, cmpVars, storeVars, wsVars, srvVars, cli_impl, flags,
                   n_sites, all_valid, results, site_log>>

\* simple main after the loop: sys.exit(0) or sys.exit(1)
SimpleExit ==
    /\ cli_pc = "loop" /\ cli_impl = "simple"
    /\ Len(site_log) = n_sites
    /\ exit_code' = (IF all_valid THEN EXIT_OK ELSE EXIT_FAILED)
    /\ cli_pc' = "exited"
    /\ UNCHANGED <<crawlVars, cmpVars, storeVars, wsVars, srvVars, cli_impl, flags,
                   n_sites, all_valid, results, site_log>>

\* main after parse_args: the sites are chosen, all_valid = True
CliInit ==
    /\ cli_impl \in {"batch", "simple"}
    /\ flags \in [validate_only : BOOLEAN, skip_validation : BOOLEAN,
                   validate : BOOLEAN]
    /\ cli_impl = "batch" => ~flags.validate
    /\ cli_impl = "simple" => ~flags.validate_only /\ ~flags.skip_validation
    /\ n_sites \in 1..MaxSites
    /\ all_valid = TRUE
    /\ results = <<>>
    /\ site_log = <<>>
    /\ exit_code = NoExit
    /\ cli_pc = "loop"

CliIdle ==
    /\ cli_impl = "batch"
    /\ flags = [validate_only |-> FALSE, skip_validation |-> FALSE,
                validate |-> FALSE]
    /\ n_sites = 1 /\ all_valid = TRUE /\ results = <<>> /\ site_log = <<>>
    /\ exit_code = NoExit /\ cli_pc = "idle"

(***************************************************************************)
(* The WebSocket crawl stream: websocket_crawl reads the request,          *)
(* simulate_crawl sends one 'page' message per page and reads control      *)
(* messages of the client between two pages.                               *)
(***************************************************************************)
\* most pages of a simulated crawl
MaxWsPages == 5
\* most control messages a client sends
MaxClientMessages == 3
\* "if page_num % 5 == 0": a progress message after every fifth page
PROGRESS_EVERY == 5

\* the first message: a crawl request, one without url, a JSON object
\* with another action, text that is not JSON
Requests == {"crawl", "crawl_nourl", "other", "garbage"}

\* a control message: {"action": "pause"}, {"action": "resume"}, a JSON
\* object with another action, text that is not JSON, JSON that is no
\* object
ControlKinds == {"pause", "resume", "other", "garbage", "nonobject"}

\* a message of the log; num is the page_num of a 'page' message and 0 in
\* every other message
Received_(kind) == [dir |-> "in", kind |-> kind, num |-> 0]
Sent(kind) == [dir |-> "out", kind |-> kind, num |-> 0]
\* result = {"type": "page", ..., "page_num": page_num, ...}
SentPage(n) == [dir |-> "out", kind |-> "page", num |-> n]

\* websocket_crawl: the request is a crawl request with a url;
\* simulate_crawl sends 'start'
WsStartCrawl ==
    /\ ws_pc = "accepted" /\ request = "crawl"
    /\ ws_log' = ws_log \o <<Received_(request), Sent("start")>>
    /\ ws_pc' = "check"
    /\ UNCHANGED <<crawlVars, cmpVars, storeVars, cliVars, srvVars, request, total_pages,
                   page_num, inbox, stats, client_sent>>

\* websocket_crawl: any other first message is answered with 'error'
\* (json.loads raising included) and the handler returns
WsRejectRequest ==
    /\ ws_pc = "accepted" /\ request # "crawl"
    /\ ws_log' = ws_log \o <<Received_(request), Sent("error")>>
    /\ ws_pc' = "closed"
    /\ UNCHANGED <<crawlVars, cmpVars, storeVars, cliVars, srvVars, request, total_pages,
                   page_num, inbox, stats, client_sent>>

\* the client sends a control message
ClientSend(kind) ==
    /\ ws_pc \in {"check", "paused", "page", "complete"}
    /\ client_sent < MaxClientMessages
    /\ inbox' = Append(inbox, kind)
    /\ client_sent' = client_sent + 1
    /\ UNCHANGED <<crawlVars, cmpVars, storeVars, cliVars, srvVars, request, total_pages,
                   page_num, ws_log, stats, ws_pc>>

\* simulate_crawl: wait_for(receive_text(), timeout=0.01) times out
WsControlTimeout ==
    /\ ws_pc = "check"
    /\ ws_pc' = "page"
    /\ UNCHANGED <<crawlVars, cmpVars, storeVars, cliVars, srvVars, request, total_pages,
                   page_num, inbox, ws_log, stats, client_sent>>

\* the "while True" loop after 'paused': a resume is answered and ends the
\* loop; json.loads raising JSONDecodeError leaves the loop through
\* "except json.JSONDecodeError: pass" of the enclosing try; resume.get
\* raising AttributeError leaves simulate_crawl, websocket_crawl answers
\* 'error'; any other JSON object is dropped
AfterPausedMessage(kind) ==
    CASE kind = "resume"    -> [pc |-> "page", reply |-> <<Sent("resumed")>>]
      [] kind = "garbage"   -> [pc |-> "page", reply |-> <<>>]
      [] kind = "nonobject" -> [pc |-> "closed", reply |-> <<Sent("error")>>]
      [] OTHER              -> [pc |-> "paused", reply |-> <<>>]

\* simulate_crawl: a control message arrived before the timeout
WsControlMessage ==
    /\ ws_pc = "check" /\ inbox # <<>>
    /\ inbox' = Tail(inbox)
    /\ LET kind == Head(inbox)
       IN  CASE kind = "pause" ->
                  /\ ws_log' = ws_log \o <<Received_(kind), Sent("paused")>>
                  /\ ws_pc' = "paused"
             [] kind = "nonobject" ->
                  /\ ws_log' = ws_log \o <<Received_(kind), Sent("error")>>
                  /\ ws_pc' = "closed"
             [] OTHER ->
                  /\ ws_log' = Append(ws_log, Received_(kind))
                  /\ ws_pc' = "page"
    /\ UNCHANGED <<crawlVars, cmpVars, storeVars, cliVars, srvVars, request, total_pages,
                   page_num, stats, client_sent>>

\* simulate_crawl, paused: resume_msg = await websocket.receive_text()
WsPausedMessage ==
    /\ ws_pc = "paused" /\ inbox # <<>>
    /\ inbox' = Tail(inbox)
    /\ ws_log' = Append(ws_log, Received_(Head(inbox)))
                   \o AfterPausedMessage(Head(inbox)).reply
    /\ ws_pc' = AfterPausedMessage(Head(inbox)).pc
    /\ UNCHANGED <<crawlVars, cmpVars, storeVars, cliVars, srvVars, request, total_pages,
                   page_num, stats, client_sent>>

\* simulate_crawl: the page is crawled with or without success, its
\* 'page' message is sent, and 'progress' after every fifth page
WsSendPage(success) ==
    /\ ws_pc = "page"
    /\ stats' = [pages_crawled |-> stats.pages_crawled + 1,
                 pages_success |-> stats.pages_success + (IF success THEN 1 ELSE 0),
                 pages_failed |-> stats.pages_failed + (IF success THEN 0 ELSE 1)]
    /\ ws_log' = Append(ws_log, SentPage(page_num))
                   \o (IF page_num % PROGRESS_EVERY = 0
                       THEN <<Sent("progress")>> ELSE <<>>)
    /\ IF page_num < total_pages
       THEN page_num' = page_num + 1 /\ ws_pc' = "check"
       ELSE ws_pc' = "complete" /\ UNCHANGED page_num
    /\ UNCHANGED <<crawlVars, cmpVars, storeVars, cliVars, srvVars, request, total_pages,
                   inbox, client_sent>>

\* simulate_crawl after the loop: the 'complete' message with the stats
WsComplete ==
    /\ ws_pc = "complete"
    /\ ws_log' = Append(ws_log, Sent("complete"))
    /\ ws_pc' = "closed"
    /\ UNCHANGED <<crawlVars, cmpVars, storeVars, cliVars, srvVars, request, total_pages,
                   page_num, inbox, stats, client_sent>>

\* websocket.accept() returned, the client has sent its first message
WsInit ==
    /\ request \in Requests
    /\ total_pages \in 1..MaxWsPages
    /\ page_num = 1
    /\ inbox = <<>>
    /\ ws_log = <<>>
    /\ stats = [pages_crawled |-> 0, pages_success |-> 0, pages_failed |-> 0]
    /\ client_sent = 0
    /\ ws_pc = "accepted"

WsIdle ==
    /\ request = "-" /\ total_pages = 1 /\ page_num = 1 /\ inbox = <<>>
    /\ ws_log = <<>>
    /\ stats = [pages_crawled |-> 0, pages_success |-> 0, pages_failed |-> 0]
    /\ client_sent = 0 /\ ws_pc = "idle"

(***************************************************************************)
(* anti-bot-lite: the middleware in front of every page.  Time is counted  *)
(* in seconds.                                                             *)
(***************************************************************************)
\* most times the clock of anti-bot-lite is advanced
MaxBotTicks == 3
\* most sessions /create-session creates
MaxBotSessions == 1
\* how far a counter of check_rate_limit is let beyond its limit: further
\* rejected requests only count it up
MaxOver == 1

RATE_LIMIT_PER_MINUTE == 10
BURST_THRESHOLD == 5
BURST_WINDOW == 5
\* "if now - client_data["window_start"] > 60"
MINUTE == 60
\* "if time.time() - session["created"] > 3600"
BOT_SESSION_LIFETIME == 3600
HTTP_BAD_REQUEST == 400
HTTP_TOO_MANY_REQUESTS == 429

\* get_client_ip(request): the address of the client under test and that
\* of another client
Ips == {"10.0.0.1", "10.0.0.2"}

\* request.url.path: a page, the session endpoint, the statistics
BotPaths == {"/", "/create-session", "/stats"}

\* the headers of a request, <<User-Agent, Accept-Language present>>: a
\* polite crawler, a browser with and without Accept-Language, a client
\* that sends no User-Agent
HeaderSets ==
    {<<"Googlebot/2.1", FALSE>>, <<"Mozilla/5.0", TRUE>>,
     <<"Mozilla/5.0", FALSE>>, <<"", TRUE>>}

\* the requests: every combination of headers, cookie and path from the
\* first address; from the second address a polite crawler that has a
\* session created (check_rate_limit(ip) reads and writes
\* rate_limit_store[ip] alone, so the counters of an address depend on the
\* requests of that address only)
BotRequests ==
    {[ip |-> "10.0.0.1", user_agent |-> headers[1],
      accept_language |-> headers[2], session_id |-> session_id,
      path |-> path] :
        headers \in HeaderSets, session_id \in 0..MaxBotSessions,
        path \in BotPaths}
    \cup {[ip |-> "10.0.0.2", user_agent |-> "Googlebot/2.1",
           accept_language |-> TRUE, session_id |-> 0,
           path |-> "/create-session"]}

\* how much time passes between two requests
BotAdvances == {BURST_WINDOW + 1, MINUTE - 10}

\* rate_limit_store[ip] of an IP that has no entry yet
NoEntry == [count |-> 0, window_start |-> 0 - 1,
            burst_count |-> 0, burst_start |-> 0 - 1]

\* session_store.get(session_id) of an id that is not in the store
NoSession == [ip |-> "-", created |-> 0 - 1]

\* a crawler that is never taken for a polite one
IsPoliteCrawlerNever(user_agent) == FALSE

\* is_polite_crawler: the lower-cased User-Agent contains the name of one
\* of the ten bots
IsPoliteCrawler(user_agent) == user_agent = "Googlebot/2.1"

\* validate_headers: Accept-Language and User-Agent are present
ValidateHeaders(user_agent, accept_language) ==
    accept_language /\ user_agent # ""

\* rate_limit_store[ip]: the defaultdict creates the entry on first access
EntryOf(store, ip, now) ==
    IF store[ip] = NoEntry
    THEN [count |-> 0, window_start |-> now, burst_count |-> 0,
          burst_start |-> now]
    ELSE store[ip]

\* check_rate_limit(ip): the verdict and the entry it leaves
CheckRateLimit(store, ip, now) ==
    LET client_data == EntryOf(store, ip, now)
        burst_reset == IF now - client_data.burst_start > BURST_WINDOW
                       THEN [client_data EXCEPT !.burst_count = 0,
                                                !.burst_start = now]
                       ELSE client_data
        burst == [burst_reset EXCEPT !.burst_count = @ + 1]
        window_reset == IF now - burst.window_start > MINUTE
                        THEN [burst EXCEPT !.count = 0, !.window_start = now]
                        ELSE burst
        counted == [window_reset EXCEPT !.count = @ + 1]
    IN  IF burst.burst_count > BURST_THRESHOLD
        THEN [allowed |-> FALSE, data |-> burst]
        ELSE IF counted.count > RATE_LIMIT_PER_MINUTE
             THEN [allowed |-> FALSE, data |-> counted]
             ELSE [allowed |-> TRUE, data |-> counted]

\* validate_session(session_id, ip): the verdict and the store it leaves
\* (an expired session is deleted; the request count of the session, which
\* nothing reads, is left out)
ValidateSession(store, session_id, ip, now) ==
    IF session_id = 0 \/ store[session_id] = NoSession
    THEN [valid |-> FALSE, store |-> store]
    ELSE IF store[session_id].ip # ip
         THEN [valid |-> FALSE, store |-> store]
         ELSE IF now - store[session_id].created > BOT_SESSION_LIFETIME
              THEN [valid |-> FALSE,
                    store |-> [store EXCEPT ![session_id] = NoSession]]
              ELSE [valid |-> TRUE, store |-> store]

\* create_session(ip)
CreateSession(store, session_id, ip, now) ==
    [store EXCEPT ![session_id] = [ip |-> ip, created |-> now]]

\* the recorded times that are less than a minute before now, and now
Passed(times, now) ==
    Append(SelectSeq(times, LAMBDA t : now - t < MINUTE), now)

\* a User-Agent that names a known polite crawler
NamesPoliteCrawler(user_agent) == user_agent \in {"Googlebot/2.1"}

\* the cookie names a session of the store that was created from the IP of
\* the request and is not older than an hour
CarriesValidSession(ip, session_id) ==
    /\ session_id # 0
    /\ session_store[session_id] # NoSession
    /\ session_store[session_id].ip = ip
    /\ bot_clock - session_store[session_id].created <= BOT_SESSION_LIFETIME

\* what the middleware decides for a request: "skip" for /favicon.ico and
\* /stats, "polite", "session" when a valid session bypasses the limits,
\* "headers" when a required header is missing, else "check"
Decision(ip, user_agent, accept_language, session_id, path) ==
    IF path = "/stats" THEN "skip"
    ELSE IF IsPoliteCrawler(user_agent) THEN "polite"
    ELSE IF ValidateSession(session_store, session_id, ip, bot_clock).valid
         THEN "session"
    ELSE IF ~ValidateHeaders(user_agent, accept_language) THEN "headers"
    ELSE "check"

\* rate_limit_middleware and the endpoint behind it (call_next): one
\* request from ip with the given headers, cookie and path
RateLimitMiddleware(ip, user_agent, accept_language, session_id, path) ==
    LET decision == Decision(ip, user_agent, accept_language, session_id, path)
        \* the middleware validates the session unless it returned before;
        \* the /stats endpoint validates it too
        validated == IF decision = "polite" THEN session_store
                     ELSE ValidateSession(session_store, session_id, ip,
                                          bot_clock).store
        checked == CheckRateLimit(rate_limit_store, ip, bot_clock)
        passes == decision # "headers" /\ (decision = "check" => checked.allowed)
    IN  /\ site_up = "anti-bot-lite"
        /\ decision = "check" =>
              /\ checked.data.burst_count <= BURST_THRESHOLD + MaxOver
              /\ checked.data.count <= RATE_LIMIT_PER_MINUTE + MaxOver
        /\ (passes /\ path = "/create-session") =>
               bot_next_session <= MaxBotSessions
        /\ rate_limit_store' =
             CASE decision = "check" ->
                    [rate_limit_store EXCEPT ![ip] = checked.data]
               [] decision = "skip" ->
                    \* stats(): client_data = rate_limit_store[ip]
                    [rate_limit_store EXCEPT
                        ![ip] = EntryOf(rate_limit_store, ip, bot_clock)]
               [] OTHER -> rate_limit_store
        /\ IF passes /\ path = "/create-session"
           THEN /\ session_store' = CreateSession(validated, bot_next_session,
                                                  ip, bot_clock)
                /\ bot_next_session' = bot_next_session + 1
           ELSE /\ session_store' = validated
                /\ UNCHANGED bot_next_session
        /\ recent_passed' =
             IF decision = "check" /\ checked.allowed
             THEN [recent_passed EXCEPT ![ip] = Passed(@, bot_clock)]
             ELSE recent_passed
        /\ bot_response' =
             [ip |-> ip,
              polite |-> NamesPoliteCrawler(user_agent),
              session |-> CarriesValidSession(ip, session_id),
              status_code |-> IF decision = "headers" THEN HTTP_BAD_REQUEST
                              ELSE IF passes THEN HTTP_OK
                              ELSE HTTP_TOO_MANY_REQUESTS]
        /\ UNCHANGED <<crawlVars, cmpVars, storeVars, cliVars, wsVars, site_up,
                       slowVars, authVars, bot_clock, bot_ticks>>

\* time passes on the clock of anti-bot-lite
BotTick(seconds) ==
    /\ site_up = "anti-bot-lite"
    /\ bot_ticks < MaxBotTicks
    /\ bot_ticks' = bot_ticks + 1
    /\ bot_clock' = bot_clock + seconds
    /\ UNCHANGED <<crawlVars, cmpVars, storeVars, cliVars, wsVars, site_up,
                   slowVars, authVars, rate_limit_store, session_store,
                   bot_next_session, bot_response, recent_passed>>

\* no request was answered yet
NoBotResponse ==
    [ip |-> "-", polite |-> FALSE, session |-> FALSE, status_code |-> 0]

\* the stores of a site that was just started
BotStart ==
    /\ bot_clock = 0 /\ bot_ticks = 0
    /\ rate_limit_store = [ip \in Ips |-> NoEntry]
    /\ session_store = [id \in 1..MaxBotSessions |-> NoSession]
    /\ bot_next_session = 1
    /\ bot_response = NoBotResponse
    /\ recent_passed = [ip \in Ips |-> <<>>]

(***************************************************************************)
(* slowpoke-and-retries: the rate limit of /rate-limited.  Time is counted *)
(* in ticks, fractions of a second, because time.time() is a float.        *)
(***************************************************************************)
\* ticks in a second
TicksPerSecond == 2
\* most times the clock of slowpoke-and-retries is advanced
MaxSlowTicks == 2

RATE_LIMIT_REQUESTS == 5
\* seconds
RATE_LIMIT_WINDOW == 60

\* RATE_LIMIT_WINDOW in ticks
WindowTicks == RATE_LIMIT_WINDOW * TicksPerSecond

\* request.client.host
SlowClients == {"127.0.0.1", "10.0.0.9"}

\* how much time passes between two requests, in ticks: one tick less than
\* the window, the window, half of it, one second
SlowAdvances ==
    {WindowTicks - 1, WindowTicks, WindowTicks \div 2, TicksPerSecond}

\* a limit that is reached one request late
OverLimit(times) == Len(times) > RATE_LIMIT_REQUESTS

\* "if len(rate_limit_state[client_id]) >= RATE_LIMIT_REQUESTS"
AtLimit(times) == Len(times) >= RATE_LIMIT_REQUESTS

\* check_rate_limit(client_id) of slowpoke-and-retries: the verdict,
\* retry_after and the list of request times it leaves; int() cuts the
\* fraction of the seconds left
SlowCheckRateLimit(times, now) ==
    LET recent == SelectSeq(times, LAMBDA req_time : now - req_time < WindowTicks)
    IN  IF AtLimit(recent)
        THEN [allowed |-> FALSE,
              retry_after |-> (WindowTicks - (now - recent[1])) \div TicksPerSecond,
              times |-> recent]
        ELSE [allowed |-> TRUE, retry_after |-> 0, times |-> Append(recent, now)]

\* rate_limited_endpoint: GET /rate-limited from client_id
RateLimitedEndpoint(client_id) ==
    LET checked == SlowCheckRateLimit(rate_limit_state[client_id], slow_clock)
    IN  /\ site_up = "slowpoke-and-retries"
        /\ rate_limit_state' = [rate_limit_state EXCEPT ![client_id] = checked.times]
        /\ slow_response' =
             [client_id |-> client_id, at |-> slow_clock,
              before |-> rate_limit_state[client_id],
              status_code |-> IF checked.allowed THEN HTTP_OK
                              ELSE HTTP_TOO_MANY_REQUESTS,
              retry_after |-> checked.retry_after]
        /\ UNCHANGED <<crawlVars, cmpVars, storeVars, cliVars, wsVars, site_up,
                       botVars, authVars, slow_clock, slow_ticks>>

\* time passes on the clock of slowpoke-and-retries
SlowTick(ticks) ==
    /\ site_up = "slowpoke-and-retries"
    /\ slow_ticks < MaxSlowTicks
    /\ slow_ticks' = slow_ticks + 1
    /\ slow_clock' = slow_clock + ticks
    /\ UNCHANGED <<crawlVars, cmpVars, storeVars, cliVars, wsVars, site_up,
                   botVars, authVars, rate_limit_state, slow_response>>

\* no request was answered yet
NoSlowResponse ==
    [client_id |-> "-", at |-> 0, before |-> <<>>, status_code |-> 0,
     retry_after |-> 0]

\* the state of a site that was just started
SlowStart ==
    /\ slow_clock = 0 /\ slow_ticks = 0
    /\ rate_limit_state = [client_id \in SlowClients |-> <<>>]
    /\ slow_response = NoSlowResponse

(***************************************************************************)
(* auth-and-session: sessions, CSRF tokens and the protected pages.  Time  *)
(* is counted in seconds.  secrets.token_urlsafe(32) yields a value never  *)
(* seen before: session ids and tokens are numbered in the order of their  *)
(* creation.                                                               *)
(***************************************************************************)
\* most sessions created
MaxSessions == 1
\* most CSRF tokens created
MaxTokens == 2
\* the latest time on the clock of auth-and-session
MaxAuthClock == 3601

\* "datetime.utcnow() - session["created_at"] > timedelta(hours=1)"
SESSION_LIFETIME == 3600
HTTP_FOUND == 302
HTTP_UNAUTHORIZED == 401
HTTP_FORBIDDEN == 403
\* the answer of the framework to a form without a required field
HTTP_UNPROCESSABLE == 422

\* the key "pre-auth" of csrf_tokens; the other keys are session ids
PreAuth == 0

\* request.cookies.get("session_id"): none (0), an id create_session may
\* hand out, an id it never hands out
SessionIds == 0..(MaxSessions + 1)

\* a csrf_token no form ever held
ForgedToken == MaxTokens + 1

\* the csrf_token field of the logout form that was posted: missing, the
\* token of the last dashboard page of the session, any other value
LogoutFields == {"missing", "current", "other"}

\* the browsers that log in
Clients == {"A", "B"}

\* the pages behind the session check
ProtectedPages == {"/dashboard", "/protected", "/profile", "/settings"}

\* how much time passes between two requests: an hour, and a second more
AuthAdvances == {SESSION_LIFETIME, SESSION_LIFETIME + 1}

\* sessions.get(session_id) of an id that is not in sessions
NoAuthSession == [username |-> "-", created_at |-> 0 - 1]

\* csrf_tokens.get(key) of a key that is not in csrf_tokens
NoToken == 0

\* session_id in sessions
InSessions(store, session_id) ==
    session_id \in DOMAIN store /\ store[session_id] # NoAuthSession

\* a session that never expires
ExpiredNever(created_at, now) == FALSE

\* "datetime.utcnow() - session["created_at"] > timedelta(hours=1)"
Expired(created_at, now) == now - created_at > SESSION_LIFETIME

\* verify_session(session_id): whether a session is returned, and the
\* store it leaves (an expired session is deleted)
VerifySession(store, session_id, now) ==
    IF session_id = 0 \/ ~InSessions(store, session_id)
    THEN [session |-> FALSE, store |-> store]
    ELSE IF Expired(store[session_id].created_at, now)
         THEN [session |-> FALSE,
               store |-> [store EXCEPT ![session_id] = NoAuthSession]]
         ELSE [session |-> TRUE, store |-> store]

\* verify_csrf(session_id, token)
VerifyCsrf(tokens, key, token) ==
    key \in DOMAIN tokens /\ tokens[key] # NoToken /\ tokens[key] = token

\* create_csrf_token(session_id): csrf_tokens[session_id] = token
CreateCsrfToken(tokens, key, token) == [tokens EXCEPT ![key] = token]

\* what the claims are told about a request: its method, path and cookie,
\* whether the cookie named a session of the store and whether that
\* session was older than one hour when the request arrived, whether the
\* posted token was the
\* one of the last login form of the client; and the answer
AuthAnswer(method, path, session_id, from_form, status, location, body) ==
    [method |-> method, path |-> path, session_id |-> session_id,
     known |-> InSessions(sessions, session_id),
     over_an_hour |->
         /\ InSessions(sessions, session_id)
         /\ auth_clock - sessions[session_id].created_at > SESSION_LIFETIME,
     from_form |-> from_form,
     status_code |-> status, location |-> location, body |-> body]

\* home and login_page do the same: a client with a session is sent to the
\* dashboard, any other gets the login form with a new "pre-auth" token
ServeLoginForm(client, session_id, path) ==
    LET verified == VerifySession(sessions, session_id, auth_clock)
    IN  /\ site_up = "auth-and-session"
        /\ sessions' = verified.store
        /\ IF verified.session
           THEN /\ auth_response' = AuthAnswer("GET", path, session_id, FALSE,
                                               HTTP_FOUND, "/dashboard", "")
                /\ UNCHANGED <<csrf_tokens, next_token, form_token>>
           ELSE /\ next_token <= MaxTokens
                /\ csrf_tokens' = CreateCsrfToken(csrf_tokens, PreAuth, next_token)
                /\ form_token' = [form_token EXCEPT ![client] = next_token]
                /\ next_token' = next_token + 1
                /\ auth_response' = AuthAnswer("GET", path, session_id, FALSE,
                                               HTTP_OK, "", "login")
        /\ UNCHANGED <<crawlVars, cmpVars, storeVars, cliVars, wsVars, site_up,
                       botVars, slowVars, auth_clock, next_session,
                       logout_sent>>

\* GET /
AuthHome(client, session_id) == ServeLoginForm(client, session_id, "/")

\* GET /login
AuthLoginPage(client, session_id) == ServeLoginForm(client, session_id, "/login")

\* POST /login with the token of the last login form the client got, or
\* with a forged token, and with right or wrong credentials
AuthLogin(client, from_form, credentials_ok) ==
    LET token == IF from_form THEN form_token[client] ELSE ForgedToken
    IN  /\ site_up = "auth-and-session"
        /\ from_form => form_token[client] # NoToken
        /\ IF ~VerifyCsrf(csrf_tokens, PreAuth, token)
           THEN /\ auth_response' = AuthAnswer("POST", "/login", 0, from_form,
                                               HTTP_FORBIDDEN, "", "Invalid CSRF token")
                /\ UNCHANGED <<sessions, csrf_tokens, next_session, next_token,
                               form_token>>
           ELSE IF ~credentials_ok
           THEN \* the login form again, with a new token
                /\ next_token <= MaxTokens
                /\ csrf_tokens' = CreateCsrfToken(csrf_tokens, PreAuth, next_token)
                /\ form_token' = [form_token EXCEPT ![client] = next_token]
                /\ next_token' = next_token + 1
                /\ auth_response' = AuthAnswer("POST", "/login", 0, from_form,
                                               HTTP_OK, "", "login")
                /\ UNCHANGED <<sessions, next_session>>
           ELSE \* create_session(username), the cookie is set
                /\ next_session <= MaxSessions
                /\ sessions' = [sessions EXCEPT ![next_session] =
                                  [username |-> "admin", created_at |-> auth_clock]]
                /\ next_session' = next_session + 1
                /\ auth_response' = AuthAnswer("POST", "/login", next_session,
                                               from_form, HTTP_FOUND, "/dashboard", "")
                /\ UNCHANGED <<csrf_tokens, next_token, form_token>>
        /\ UNCHANGED <<crawlVars, cmpVars, storeVars, cliVars, wsVars, site_up,
                       botVars, slowVars, auth_clock, logout_sent>>

\* GET /dashboard: the page holds a new CSRF token of the session
AuthDashboard(session_id) ==
    LET verified == VerifySession(sessions, session_id, auth_clock)
    IN  /\ site_up = "auth-and-session"
        /\ sessions' = verified.store
        /\ IF ~verified.session
           THEN /\ auth_response' = AuthAnswer("GET", "/dashboard", session_id,
                                               FALSE, HTTP_FOUND, "/login", "")
                /\ UNCHANGED <<csrf_tokens, next_token>>
           ELSE /\ next_token <= MaxTokens
                /\ csrf_tokens' = CreateCsrfToken(csrf_tokens, session_id, next_token)
                /\ next_token' = next_token + 1
                /\ auth_response' = AuthAnswer("GET", "/dashboard", session_id,
                                               FALSE, HTTP_OK, "", "/dashboard")
        /\ UNCHANGED <<crawlVars, cmpVars, storeVars, cliVars, wsVars, site_up,
                       botVars, slowVars, auth_clock, next_session,
                       form_token, logout_sent>>

\* GET /protected, /profile, /settings: three handlers with the same body
AuthProtectedPage(session_id, path) ==
    LET verified == VerifySession(sessions, session_id, auth_clock)
    IN  /\ site_up = "auth-and-session"
        /\ sessions' = verified.store
        /\ auth_response' =
             IF ~verified.session
             THEN AuthAnswer("GET", path, session_id, FALSE, HTTP_FOUND,
                             "/login", "")
             ELSE AuthAnswer("GET", path, session_id, FALSE, HTTP_OK, "", path)
        /\ UNCHANGED <<crawlVars, cmpVars, storeVars, cliVars, wsVars, site_up,
                       botVars, slowVars, auth_clock, csrf_tokens,
                       next_session, next_token, form_token, logout_sent>>

\* POST /logout with the cookie session_id and the form field csrf_token
\* (when the form has no such field, the framework answers 422 before
\* logout runs)
AuthLogout(session_id, field) ==
    /\ site_up = "auth-and-session"
    /\ field = "current" =>
          session_id \in DOMAIN csrf_tokens /\ csrf_tokens[session_id] # NoToken
    /\ logout_sent' =
         IF /\ InSessions(sessions, session_id)
            /\ auth_clock - sessions[session_id].created_at <= SESSION_LIFETIME
         THEN logout_sent \cup {session_id} ELSE logout_sent
    /\ IF field = "missing"
       THEN /\ auth_response' = AuthAnswer("POST", "/logout", session_id, FALSE,
                                           HTTP_UNPROCESSABLE, "", "Field required")
            /\ UNCHANGED <<sessions, csrf_tokens>>
       ELSE IF /\ session_id # 0
               /\ ~VerifyCsrf(csrf_tokens, session_id,
                              IF field = "current" THEN csrf_tokens[session_id]
                              ELSE ForgedToken)
       THEN /\ auth_response' = AuthAnswer("POST", "/logout", session_id, FALSE,
                                           HTTP_FORBIDDEN, "", "Invalid CSRF token")
            /\ UNCHANGED <<sessions, csrf_tokens>>
       ELSE /\ sessions' = [id \in DOMAIN sessions |->
                              IF id = session_id THEN NoAuthSession
                              ELSE sessions[id]]
            /\ csrf_tokens' = [key \in DOMAIN csrf_tokens |->
                                 IF key = session_id /\ session_id # 0
                                 THEN NoToken ELSE csrf_tokens[key]]
            /\ auth_response' = AuthAnswer("POST", "/logout", session_id, FALSE,
                                           HTTP_FOUND, "/", "")
    /\ UNCHANGED <<crawlVars, cmpVars, storeVars, cliVars, wsVars, site_up,
                   botVars, slowVars, auth_clock, next_session,
                   next_token, form_token>>

\* time passes on the clock of auth-and-session
AuthTick(seconds) ==
    /\ site_up = "auth-and-session"
    /\ auth_clock + seconds <= MaxAuthClock
    /\ auth_clock' = auth_clock + seconds
    /\ UNCHANGED <<crawlVars, cmpVars, storeVars, cliVars, wsVars, site_up,
                   botVars, slowVars, sessions, csrf_tokens, next_session,
                   next_token, form_token, logout_sent, auth_response>>

\* no request was answered yet
NoAuthResponse ==
    [method |-> "-", path |-> "-", session_id |-> 0, known |-> FALSE,
     over_an_hour |-> FALSE, from_form |-> FALSE, status_code |-> 0, location |-> "",
     body |-> ""]

\* the state of a site that was just started
AuthStart ==
    /\ auth_clock = 0
    /\ sessions = [id \in 1..MaxSessions |-> NoAuthSession]
    /\ csrf_tokens = [key \in 0..MaxSessions |-> NoToken]
    /\ next_session = 1
    /\ next_token = 1
    /\ form_token = [client \in Clients |-> NoToken]
    /\ logout_sent = {}
    /\ auth_response = NoAuthResponse

\* none of the three sites serves requests
SrvIdle == site_up = "none" /\ BotStart /\ SlowStart /\ AuthStart

\* anti-bot-lite was just started
BotInit ==
    /\ site_up = "anti-bot-lite" /\ BotStart /\ SlowStart /\ AuthStart

\* auth-and-session was just started
AuthInit ==
    /\ site_up = "auth-and-session" /\ BotStart /\ SlowStart /\ AuthStart

\* slowpoke-and-retries was just started
SlowInit ==
    /\ site_up = "slowpoke-and-retries" /\ BotStart /\ SlowStart /\ AuthStart

RestIdle == StoreIdle /\ CliIdle /\ WsIdle /\ SrvIdle

CompareIdle ==
    /\ cmp_impl = "fixture" /\ file_exists = FALSE /\ data_type = "stats"
    /\ expected = NoDict /\ actual = NoDict
    /\ expected_count = 0 /\ actual_count = 0
    /\ tolerance = 0 /\ strict = FALSE
    /\ cpc = "idle" /\ comparison = NoComparison

\* a call of a comparator with its arguments
CompareInit ==
    /\ cmp_impl \in {"fixture", "engine"}
    /\ file_exists \in (IF cmp_impl = "fixture" THEN BOOLEAN ELSE {TRUE})
    /\ data_type \in (IF cmp_impl = "fixture" /\ file_exists
                      THEN {"stats", "pages", "entities"} ELSE {"stats"})
    /\ tolerance \in Tolerances
    /\ strict \in (IF cmp_impl = "fixture" THEN BOOLEAN ELSE {FALSE})
    /\ IF data_type = "stats" /\ file_exists
       THEN /\ expected \in ExpectedDicts
            /\ actual \in ActualDicts
            /\ expected_count = 0 /\ actual_count = 0
       ELSE /\ expected = NoDict /\ actual = NoDict
            /\ expected_count \in ExpectedNums
            /\ actual_count \in ActualNums
    /\ cpc = "call"
    /\ comparison = NoComparison

\* no crawl is under way
CrawlIdle ==
    /\ impl = "batch"
    /\ links = [u \in AllUrls |-> <<>>]
    /\ blocks = [u \in AllUrls |-> <<>>]
    /\ max_pages = 1 /\ retry_attempts = 1
    /\ rate_limit_delay = 0 /\ auth_required = FALSE
    /\ to_visit = <<>> /\ visited_urls = {} /\ pages = <<>>
    /\ pages_crawled = 0 /\ pages_failed = 0 /\ errors = <<>>
    /\ stop_reason = "completed"
    /\ pc = "idle" /\ url = NoUrl /\ attempt = 0 /\ response = "pending"
    /\ gets = 0 /\ sleeps = <<>>
    /\ attempted = [u \in AllUrls |-> 0]
    /\ responded = [u \in AllUrls |-> 0]
    /\ enqueued = [u \in AllUrls |-> 0]
    /\ faults = 0
    /\ authenticated = FALSE /\ posts = 0
    /\ pace_sleeps = <<>> /\ entities = <<>> /\ status_code = 0

(***************************************************************************)
(* Properties of the crawl.                                                 *)
(***************************************************************************)
\* P: the number of pages reachable from the root
P == Cardinality(Reachable(links))

\* the URLs dequeued and attempted so far
AttemptedUrls == {u \in Urls : attempted[u] > 0}

RECURSIVE SumOver(_, _)
SumOver(f, S) ==
    IF S = {} THEN 0
    ELSE LET x == CHOOSE y \in S : TRUE IN f[x] + SumOver(f, S \ {x})

\* C1: when every fetch answered 200, the finished crawl has visited exactly
\* min(P, max_pages) distinct URLs, and every visited URL was fetched exactly
\* once (no URL is fetched twice at any point, none is fetched and unvisited).
C1_VisitsMinOfReachableAndBudget ==
    faults = 0 =>
        /\ \A u \in Urls : responded[u] <= 1 /\ attempted[u] <= 1
        /\ pc = "done" =>
             /\ Cardinality(visited_urls) = Min(P, max_pages)
             /\ \A u \in Urls :
                  responded[u] = (IF u \in visited_urls THEN 1 ELSE 0)
             /\ Len(pages) = Min(P, max_pages)

\* a crawl of a three-page site cut short by a budget of two
C1_Witness ==
    /\ pc = "done" /\ faults = 0
    /\ P = 3 /\ max_pages = 2
    /\ Cardinality(visited_urls) = 2

\* C2 (as claimed): at the end of a crawl whose fetches all answered 200,
\* stop_reason is "completed" iff P <= max_pages, and "max_pages" otherwise.
C2_CompletedIffReachableWithinBudget ==
    (pc = "done" /\ impl \in {"batch", "simple"} /\ faults = 0) =>
        /\ stop_reason = "completed" <=> P <= max_pages
        /\ stop_reason = "max_pages" <=> P > max_pages

\* C3 (as claimed): a URL is enqueued at most once: the queue never holds
\* two copies of a URL and no URL is appended a second time.
C3_EnqueuedAtMostOnce ==
    pc \in {"loop", "fetch", "done"} =>
        \A u \in Urls : Count(to_visit, u) <= 1 /\ enqueued[u] <= 1

\* C4 (as claimed): between iterations of both generator scripts,
\* pages_crawled + pages_failed is the number of distinct URLs dequeued and
\* attempted.
C4_CountersSumToAttemptedUrls ==
    (impl \in {"batch", "simple"} /\ pc \in {"loop", "done"}) =>
        pages_crawled + pages_failed = Cardinality(AttemptedUrls)

\* C5 (as claimed): the step in which _fetch_with_retry returns None
\* increases pages_failed by one and the crawl goes on with the loop.
C5_ExhaustedFetchIsRecorded ==
    [][(impl = "batch" /\ pc = "fetch" /\ response' = "None") =>
          (pages_failed' = pages_failed + 1 /\ pc' = "loop")]_vars

\* C6: one call of _fetch_with_retry issues at most retry_attempts GETs;
\* while it still tries, every failed attempt was followed by one sleep;
\* a response ends it at once, with one sleep between two consecutive
\* attempts and none after the last; it returns None only after exactly
\* retry_attempts failed attempts, again without a sleep after the last;
\* and every sleep lasts the same retry_delay.
C6_RetryDiscipline ==
    (impl = "batch" /\ pc \in {"loop", "fetch", "done"}) =>
        /\ gets <= retry_attempts
        /\ \A i \in 1..Len(sleeps) : sleeps[i] = RETRY_DELAY
        /\ response = "pending" => Len(sleeps) = gets /\ attempt = gets
        /\ response = "received" => Len(sleeps) = gets - 1 /\ pc # "fetch"
        /\ response = "None" =>
             /\ gets = retry_attempts
             /\ Len(sleeps) = retry_attempts - 1
             /\ pc # "fetch"

\* a fetch given up after three failed attempts and the two sleeps between
\* them
C6_Witness ==
    /\ impl = "batch" /\ response = "None"
    /\ retry_attempts = 3 /\ gets = 3 /\ Len(sleeps) = 2

\* C7 (as claimed): in both generator scripts the number of PageRecords is
\* the number of responses received, whatever their status.
C7_OnePageRecordPerResponse ==
    (impl \in {"batch", "simple"} /\ pc \in {"loop", "fetch", "done"}) =>
        Len(pages) = SumOver(responded, Urls)

\* the PageRecords appended for the requested URL u
RecordsFor(u) == {i \in 1..Len(pages) : pages[i].requested_url = u}

\* C28: at every point of a crawl the number of visited URLs and the number
\* of PageRecords are at most max_pages, and pages holds at most one
\* PageRecord per requested URL, whatever the fetch outcomes are.
C28_BudgetIsNeverExceeded ==
    pc # "idle" =>
        /\ Cardinality(visited_urls) <= max_pages
        /\ Len(pages) <= max_pages
        /\ \A u \in AllUrls : Cardinality(RecordsFor(u)) <= 1

\* a finished crawl that used its whole budget of three although fetches
\* failed and a non-200 answer came, with URLs left in the queue
C28_Witness ==
    /\ pc = "done" /\ max_pages = 3
    /\ Cardinality(visited_urls) = max_pages
    /\ faults > 1
    /\ \E i \in 1..Len(pages) : pages[i].status_code # HTTP_OK
    /\ to_visit # <<>>

\* the queue entries the pages not yet visited can still add: a page adds
\* at most its links, and only while it is unvisited
Potential ==
    Cardinality(UNION {{<<u, i>> : i \in 1..Len(PageLinks(u))} :
                           u \in AllUrls \ visited_urls})

\* what is left of the current iteration: the attempts of the fetch in
\* progress, then the loop head, then nothing
IterationRank ==
    CASE pc = "fetch" -> 2 + (retry_attempts - attempt)
      [] pc = "loop"  -> 1
      [] OTHER        -> 0

\* a bound on the steps a crawl can still take: every queue entry, present
\* or still to come, costs one iteration of at most retry_attempts attempts
Variant ==
    (retry_attempts + 3) * (Len(to_visit) + Potential) + IterationRank

\* a crawl of a site whose pages link to each other and to themselves ended
\* after a failed fetch and a non-200 answer
C29_Witness ==
    /\ pc = "done"
    /\ \A u \in Urls : Len(links[u]) = 2 /\ u \in Range(links[u])
    /\ faults > 1
    /\ \E i \in 1..Len(pages) : pages[i].status_code # HTTP_OK

(***************************************************************************)
(* Properties of the crawl of a site with content.                          *)
(***************************************************************************)
\* a step in which a generator receives a 200 response for the URL of this
\* iteration and processes the page
PageProcessed ==
    /\ pc = "fetch"
    /\ response' = "received"
    /\ status_code' = HTTP_OK

\* C11 (as claimed): when the batch generator processes a page with a
\* JSON-LD object of another @type than entity_type, an EntityRecord of
\* that type is appended to entities and validate finds a wrong-typed
\* entity.
C11_WrongTypedObjectIsRecorded ==
    [][(impl = "batch" /\ PageProcessed
          /\ JsonObject(OtherType) \in Range(PageBlocks(url))) =>
          /\ \E i \in 1..Len(entities') :
                entities'[i] = EntityRecord(OtherType, FinalUrl(url))
          /\ WrongTypes(entities') # <<>>]_vars

\* a block the generator at work cannot turn into entities: invalid JSON,
\* a script without text, a JSON value that is no object; the simple
\* generator cannot process an array either
Unprocessable(b) ==
    \/ b.kind \in {"invalid", "none", "scalar"}
    \/ impl = "simple" /\ b.kind = "array"

Processable(b) == ~Unprocessable(b)

\* the EntityRecords the blocks bs of a page give when the unprocessable
\* ones among them are left out
EntitiesOfOtherBlocks(bs, u) ==
    IF impl = "batch"
    THEN BatchExtractEntities(SelectSeq(bs, Processable), u)
    ELSE SimpleExtractEntities(SelectSeq(bs, Processable), u).found

\* C12 (as claimed): in both generators, processing a 200 page with an
\* unprocessable JSON-LD block appends the PageRecord of the page, adds one
\* to pages_crawled, leaves pages_failed alone, appends exactly the
\* entities of the other blocks and enqueues the links of the page.
C12_BadBlockDoesNotAbortThePage ==
    [][(impl \in {"batch", "simple"} /\ PageProcessed
          /\ \E i \in 1..Len(PageBlocks(url)) :
                Unprocessable(PageBlocks(url)[i])) =>
          /\ Len(pages') = Len(pages) + 1
          /\ pages'[Len(pages')].requested_url = url
          /\ pages_crawled' = pages_crawled + 1
          /\ pages_failed' = pages_failed
          /\ entities' = entities
                           \o EntitiesOfOtherBlocks(PageBlocks(url), FinalUrl(url))
          /\ \A l \in Range(PageLinks(url)) :
                (SimpleSameDomain(l) /\ ~HasBinaryExtension(UrlText(l))
                   /\ l \notin visited_urls') => l \in Range(to_visit')]_vars

\* the EntityRecords recorded for the page served at URL u
RecordsOf(u) == {i \in 1..Len(entities) : entities[i].url = u}

\* C13 (as claimed): once a generator has fetched both the redirecting
\* URL and its target with success, entities holds exactly one
\* EntityRecord of the target page.
C13_RedirectYieldsOneEntity ==
    (impl \in {"batch", "simple"} /\ pc \in {"loop", "done"} /\ faults = 0
       /\ OldUrl \in visited_urls /\ FinalUrl(OldUrl) \in visited_urls) =>
        Cardinality(RecordsOf(FinalUrl(OldUrl))) = 1

\* the fetches (calls of _fetch_with_retry) begun so far
Fetches == SumOver(attempted, AllUrls)

\* C17: with rate_limit_delay > 0 the batch crawl has slept once before
\* every fetch it began except the first, whatever became of the earlier
\* fetches, and each of these sleeps lasts rate_limit_delay.
C17_PacedFromTheSecondFetch ==
    (impl = "batch" /\ rate_limit_delay > 0 /\ pc \in {"loop", "fetch", "done"}) =>
        /\ Len(pace_sleeps) = (IF Fetches = 0 THEN 0 ELSE Fetches - 1)
        /\ \A i \in 1..Len(pace_sleeps) : pace_sleeps[i] = rate_limit_delay

\* the third fetch has begun, after two sleeps, and an earlier fetch failed
C17_Witness ==
    /\ impl = "batch" /\ rate_limit_delay > 0
    /\ pc = "fetch" /\ gets = 0
    /\ faults > 0
    /\ Fetches = 3 /\ Len(pace_sleeps) = 2

\* C18: a batch crawl of a site with auth_required sends no GET before its
\* login POST, sends exactly one login POST, and whatever the login gave
\* starts the loop from the root URL and fetches the root page before it
\* ends.
C18_OneLoginThenTheRoot ==
    (impl = "batch" /\ auth_required /\ pc \in {"auth", "loop", "fetch", "done"}) =>
        /\ pc = "auth" => posts = 0 /\ Fetches = 0 /\ gets = 0
        /\ pc # "auth" => posts = 1
        /\ (pc = "loop" /\ Fetches = 0) => to_visit = <<Root>>
        /\ pc = "done" => attempted[Root] >= 1

\* the root page was answered after a login that failed
C18_Witness ==
    /\ impl = "batch" /\ auth_required /\ ~authenticated
    /\ posts = 1
    /\ responded[Root] = 1

\* urlparse(url).netloc of a URL equals that of the base URL
SameAuthority(u) == Netloc(UrlText(u)) = Netloc(BaseUrlText)

\* C19 (as claimed): every URL ever enqueued or fetched has the authority
\* of the base URL.
C19_FrontierStaysOnTheBaseAuthority ==
    pc \in {"auth", "loop", "fetch", "done"} =>
        \A u \in AllUrls :
            (enqueued[u] > 0 \/ attempted[u] > 0) => SameAuthority(u)

(***************************************************************************)
(* Properties of the JSONL files.                                           *)
(***************************************************************************)
\* a reader has read the file
ReadDone == spc \in {"loaded", "raised"}

\* C14 (as claimed): the ground-truth loader, reading the file the
\* generator saved, returns the saved PageRecords: as many, equal field
\* for field, in the same order.
C14_SaveThenLoadIsIdentity ==
    (ReadDone /\ reader = "loader" /\ blank_lines = 0) =>
        /\ spc = "loaded"
        /\ Len(loaded) = Len(records)
        /\ \A i \in 1..Len(records) :
              \A j \in 1..Len(PageKeys) :
                 PyEq(loaded[i][PageKeys[j]], records[i][PageKeys[j]])

\* C15 (as claimed): each of the three readers ends without an error on a
\* file with empty lines and returns the records of its non-empty lines.
C15_EveryReaderSkipsEmptyLines ==
    (ReadDone /\ blank_lines > 0) =>
        /\ spc = "loaded"
        /\ loaded = NonBlankRecords(
                        Decode(file, IF reader = "loader" THEN preferred_encoding
                                     ELSE "utf-8"))

(***************************************************************************)
(* Properties of the command line.                                          *)
(***************************************************************************)
\* the site of this entry of site_log succeeded: nothing raised, no file
\* was missing, and validation, if it ran, returned True
SiteSucceeded(e) == ~e.raised /\ ~e.missing /\ (e.validated => e.valid)

\* C16: when main exits, every site was processed, and the exit code is 0
\* if every site succeeded and 1 otherwise.
C16_ExitCodeTellsWhetherEverySiteSucceeded ==
    cli_pc = "exited" =>
        /\ Len(site_log) = n_sites
        /\ exit_code \in {EXIT_OK, EXIT_FAILED}
        /\ exit_code = EXIT_OK <=>
              \A i \in 1..Len(site_log) : SiteSucceeded(site_log[i])

\* the first of two sites failed validation, the second passed, exit 1
C16_Witness ==
    /\ cli_pc = "exited" /\ Len(site_log) = 2
    /\ site_log[1].validated /\ ~site_log[1].valid
    /\ SiteSucceeded(site_log[2])
    /\ exit_code = EXIT_FAILED

(***************************************************************************)
(* Properties of the WebSocket stream.                                      *)
(***************************************************************************)
\* the positions of ws_log before i at which 'paused' was sent
PausedBefore(i) == {j \in 1..(i - 1) : ws_log[j] = Sent("paused")}

\* C20 (as claimed): every 'page' message sent after a 'paused' event
\* comes after a message with action 'resume' that the server received
\* after the last 'paused'.
C20_NoPageWhilePaused ==
    ws_pc # "idle" =>
        \A i \in 1..Len(ws_log) :
            (ws_log[i].kind = "page" /\ PausedBefore(i) # {}) =>
                \E k \in 1..(i - 1) :
                    /\ \A j \in PausedBefore(i) : j < k
                    /\ ws_log[k] = Received_("resume")

\* the messages the server sent that are not answers to control messages
\* and not progress reports
StreamMessages ==
    SelectSeq(ws_log, LAMBDA m : m.dir = "out"
                                 /\ m.kind \notin {"paused", "resumed", "progress"})

\* 'start', then one 'page' message for each of 1..total_pages in
\* increasing order, then 'complete'
FullStream ==
    <<Sent("start")>> \o [n \in 1..total_pages |-> SentPage(n)]
                     \o <<Sent("complete")>>

\* the positions of ws_log at which 'paused' was sent and no 'resume' was
\* received later
UnresumedPauses ==
    {j \in 1..Len(ws_log) :
        /\ ws_log[j] = Sent("paused")
        /\ \A k \in (j + 1)..Len(ws_log) : ws_log[k] # Received_("resume")}

\* C21 (as claimed): a crawl session whose handler has returned, whose
\* client resumed after every pause, has sent 'start', then exactly one
\* 'page' message for each page_num of 1..total_pages in increasing order,
\* then one 'complete' message, and the stats of that message satisfy
\* pages_crawled = pages_success + pages_failed = total_pages.
C21_StartPagesComplete ==
    (ws_pc = "closed" /\ request = "crawl" /\ UnresumedPauses = {}) =>
        /\ StreamMessages = FullStream
        /\ stats.pages_crawled = total_pages
        /\ stats.pages_success + stats.pages_failed = total_pages

(***************************************************************************)
(* Properties of anti-bot-lite.                                             *)
(***************************************************************************)
\* C22 (as claimed): of the requests with both required headers, without a
\* valid session and without a polite User-Agent, at most
\* RATE_LIMIT_PER_MINUTE from one IP are let through in any span of 60
\* seconds: no IP has more than ten such requests that passed less than a
\* minute before the latest of them.
C22_AtMostTenPerMinute ==
    \A ip \in Ips : Len(recent_passed[ip]) <= RATE_LIMIT_PER_MINUTE

\* count and burst_count of an IP (both 0 when it has no entry)
Counters(store, ip) == <<store[ip].count, store[ip].burst_count>>

\* C23: a request whose User-Agent names a polite crawler, or that carries
\* a valid unexpired session cookie created from its IP, is answered
\* neither 400 nor 429, and the counters of its IP are after it what they
\* were before it.
C23_BypassIsNeverLimited ==
    [][(bot_clock' = bot_clock
        /\ (bot_response'.polite \/ bot_response'.session))
       => /\ bot_response'.status_code
                \notin {HTTP_BAD_REQUEST, HTTP_TOO_MANY_REQUESTS}
          /\ Counters(rate_limit_store', bot_response'.ip)
                = Counters(rate_limit_store, bot_response'.ip)]_vars

\* an IP that ran into the burst limit is served with its session cookie,
\* without any of the required headers
C23_Witness ==
    /\ bot_response.status_code = HTTP_OK
    /\ bot_response.session /\ ~bot_response.polite
    /\ rate_limit_store[bot_response.ip].burst_count > BURST_THRESHOLD

(***************************************************************************)
(* Properties of /rate-limited of slowpoke-and-retries.                     *)
(***************************************************************************)
\* C24: after any sequence of requests the list of request times of every
\* client holds at most RATE_LIMIT_REQUESTS entries; the entries of the
\* client that asked last are all younger than the window at the time of
\* that request, and when it was rejected its list holds no entry that
\* was not there before.
C24_AtMostFiveYoungEntries ==
    /\ \A client_id \in SlowClients :
          Len(rate_limit_state[client_id]) <= RATE_LIMIT_REQUESTS
    /\ slow_response # NoSlowResponse =>
          LET times == rate_limit_state[slow_response.client_id]
          IN  /\ \A i \in 1..Len(times) :
                    slow_response.at - times[i] < WindowTicks
              /\ slow_response.status_code = HTTP_TOO_MANY_REQUESTS =>
                    /\ Len(times) <= Len(slow_response.before)
                    /\ Range(times) \subseteq Range(slow_response.before)
              /\ slow_response.status_code = HTTP_OK =>
                    slow_response.at \in Range(times)

\* a sixth request inside the window was rejected after older entries had
\* left the window
C24_Witness ==
    /\ slow_response.status_code = HTTP_TOO_MANY_REQUESTS
    /\ Len(rate_limit_state[slow_response.client_id]) = RATE_LIMIT_REQUESTS
    /\ \E i \in 1..Len(slow_response.before) :
          slow_response.before[i] > 0

\* C25 (as claimed): whenever /rate-limited answers 429, Retry-After is a
\* whole number of seconds from 1 to 60.
C25_RetryAfterFromOneToSixty ==
    slow_response.status_code = HTTP_TOO_MANY_REQUESTS =>
        slow_response.retry_after \in 1..RATE_LIMIT_WINDOW

(***************************************************************************)
(* Properties of auth-and-session.                                          *)
(***************************************************************************)
\* C26: a GET of a protected page without a session cookie, with a session
\* id the store does not hold, or with a session older than one hour is
\* answered 302 to /login without the page, and the expired session is no
\* longer in the store.
C26_ProtectedPagesNeedALiveSession ==
    (/\ auth_response.method = "GET"
     /\ auth_response.path \in ProtectedPages
     /\ \/ auth_response.session_id = 0
        \/ ~auth_response.known
        \/ auth_response.over_an_hour)
    => /\ auth_response.status_code = HTTP_FOUND
       /\ auth_response.location = "/login"
       /\ auth_response.body = ""
       /\ ~InSessions(sessions, auth_response.session_id)

\* a session one hour and one second old was refused and removed
C26_Witness ==
    /\ auth_response.method = "GET"
    /\ auth_response.path = "/settings"
    /\ auth_response.known /\ auth_response.over_an_hour
    /\ auth_response.status_code = HTTP_FOUND
    /\ ~InSessions(sessions, auth_response.session_id)

\* C27 (as claimed): after a logged-in client sent POST /logout, a GET
\* /dashboard with the same session cookie is answered 302, 401 or 403.
C27_LogoutInvalidatesTheSession ==
    (/\ auth_response.method = "GET"
     /\ auth_response.path = "/dashboard"
     /\ auth_response.session_id \in logout_sent)
    => auth_response.status_code \in {HTTP_FOUND, HTTP_UNAUTHORIZED, HTTP_FORBIDDEN}

\* C30 (as claimed): a client that posts the CSRF token of the login form
\* it fetched last is not rejected with 403 "Invalid CSRF token", whatever
\* other clients requested in between.
C30_LoginFlowsDoNotInterfere ==
    (/\ auth_response.method = "POST"
     /\ auth_response.path = "/login"
     /\ auth_response.from_form)
    => auth_response.status_code # HTTP_FORBIDDEN

(***************************************************************************)
(* Properties of the comparators.                                           *)
(***************************************************************************)
\* a finished call that compared two stats dicts
StatsCompared ==
    /\ cpc \in {"returned", "raised"}
    /\ data_type = "stats"
    /\ cmp_impl = "fixture" => file_exists

\* the comparator returned, and its verdict is "no differences"
ReturnedPass ==
    /\ cpc = "returned"
    /\ IF cmp_impl = "fixture" THEN comparison.status = "pass"
       ELSE comparison.passed

\* the number of difference entries reported for key k
DiffsFor(k) ==
    Cardinality({i \in 1..Len(comparison.differences) :
                    comparison.differences[i].key = k})

\* abs(actual[k] - expected[k]) <= expected[k] * tolerance, for a number
WithinTolerance(k) ==
    /\ actual[k].t = "num"
    /\ 100 * Abs(actual[k].v - expected[k].v) <= expected[k].v * tolerance

\* C8 (as claimed): when the expected value of a numeric key is a number and
\* the actual value is None or the key is absent, every comparator returns
\* (does not raise) and reports a difference for that key.
C8_NoneActualIsADifference ==
    StatsCompared =>
        \A k \in NumericKeys :
            actual[k].t \in {"none", "absent"} =>
                cpc = "returned" /\ DiffsFor(k) >= 1

KeyMatches(k) ==
    IF k \in NumericKeys THEN WithinTolerance(k)
    ELSE PyEq(actual[k], expected[k])

C10_StatusResolution ==
    cmp_impl = "fixture" =>
        /\ cpc # "raised"
        /\ cpc = "returned" =>
             IF ~file_exists THEN comparison.status = "no_ground_truth"
             ELSE /\ comparison.status \in {"pass", "warning", "fail"}
                  /\ comparison.status = "pass"
                       <=> comparison.differences = <<>>
                  /\ comparison.status = "warning"
                       <=> (comparison.differences # <<>> /\ ~strict)
                  /\ comparison.status = "fail"
                       <=> (comparison.differences # <<>> /\ strict)

\* a strict comparison of page lists whose counts are too far apart
C10_Witness ==
    /\ cmp_impl = "fixture" /\ cpc = "returned" /\ file_exists
    /\ data_type = "pages" /\ strict
    /\ comparison.status = "fail"
    /\ Len(comparison.differences) = 1

Statuses == {HTTP_OK, HTTP_NOT_FOUND}

Next ==
    \/ Dequeue
    \/ \E status \in Statuses : BatchResponse(status)
    \/ \E kind \in {"timeout", "error"} : BatchFetchFails(kind)
    \/ \E status \in Statuses : SimpleResponse(status)
    \/ SimpleFetchFails
    \/ \E status \in Statuses : HelperResponse(status)
    \/ HelperFetchFails
    \/ Finish
    \/ HelperReturn

Init == CrawlInit /\ CompareIdle /\ RestIdle

\* C29: the crawl loop terminates: every step of a crawl (dequeue, response
\* of any status, failed attempt, exhausted fetch, loop exit) decreases a
\* natural number, the variant, in which one queue entry stands for one
\* iteration and only pages not yet visited count as sources of entries;
\* and a crawl that has not ended can always take a step.
C29_EveryStepDecreasesTheVariant ==
    /\ [](pc \in {"loop", "fetch"} => (Variant \in Nat /\ ENABLED Next))
    /\ [][Variant' < Variant]_vars

NextSite ==
    \/ Next
    \/ \E status \in Statuses : AuthResponse(status)
    \/ AuthRaises

InitSite == SiteInit /\ CompareIdle /\ RestIdle

\* a crawl of a site with content by one of the three crawlers
SpecSite == InitSite /\ [][NextSite]_vars

\* a crawl of one site by one of the three crawlers
Spec == Init /\ [][Next]_vars

InitCompare == CrawlIdle /\ CompareInit /\ RestIdle

NextCompare ==
    \/ FixtureCompare
    \/ EngineCompareStats

\* one call of one of the two comparators
SpecCompare == InitCompare /\ [][NextCompare]_vars

InitStore ==
    CrawlIdle /\ CompareIdle /\ StoreInit /\ CliIdle /\ WsIdle /\ SrvIdle

NextStore ==
    \/ Save
    \/ \E blank \in {<<Newline>>, <<Space, Newline>>} : InsertEmptyLine(blank)
    \/ LoaderLoad
    \/ ValidatorRead
    \/ ValidateOnlyLoad

\* one pages file: saved, perhaps edited, read by one reader
SpecStore == InitStore /\ [][NextStore]_vars

InitCli ==
    CrawlIdle /\ CompareIdle /\ StoreIdle /\ CliInit /\ WsIdle /\ SrvIdle

NextCli ==
    \/ \E o \in SiteOutcomes : BatchValidateOnly(o)
    \/ \E o \in SiteOutcomes : BatchGenerate(o)
    \/ \E o \in SiteOutcomes : SimpleGenerate(o)
    \/ BatchExit
    \/ SimpleExit

\* one run of the main of one of the two generator scripts
SpecCli == InitCli /\ [][NextCli]_vars

InitWs ==
    CrawlIdle /\ CompareIdle /\ StoreIdle /\ CliIdle /\ WsInit /\ SrvIdle

NextWs ==
    \/ WsStartCrawl
    \/ WsRejectRequest
    \/ \E kind \in ControlKinds : ClientSend(kind)
    \/ WsControlTimeout
    \/ WsControlMessage
    \/ WsPausedMessage
    \/ \E success \in BOOLEAN : WsSendPage(success)
    \/ WsComplete

\* one connection to /ws/crawl
SpecWs == InitWs /\ [][NextWs]_vars

InitBot == CrawlIdle /\ CompareIdle /\ StoreIdle /\ CliIdle /\ WsIdle /\ BotInit

NextBot ==
    \/ \E r \in BotRequests :
           RateLimitMiddleware(r.ip, r.user_agent, r.accept_language,
                               r.session_id, r.path)
    \/ \E seconds \in BotAdvances : BotTick(seconds)

\* requests to anti-bot-lite
SpecBot == InitBot /\ [][NextBot]_vars

InitSlow == CrawlIdle /\ CompareIdle /\ StoreIdle /\ CliIdle /\ WsIdle /\ SlowInit

NextSlow ==
    \/ \E client_id \in SlowClients : RateLimitedEndpoint(client_id)
    \/ \E ticks \in SlowAdvances : SlowTick(ticks)

\* requests to /rate-limited of slowpoke-and-retries
SpecSlow == InitSlow /\ [][NextSlow]_vars

InitAuth == CrawlIdle /\ CompareIdle /\ StoreIdle /\ CliIdle /\ WsIdle /\ AuthInit

NextAuth ==
    \/ \E client \in Clients, session_id \in SessionIds : AuthHome(client, session_id)
    \/ \E client \in Clients, session_id \in SessionIds :
           AuthLoginPage(client, session_id)
    \/ \E client \in Clients, from_form \in BOOLEAN, credentials_ok \in BOOLEAN :
           AuthLogin(client, from_form, credentials_ok)
    \/ \E session_id \in SessionIds : AuthDashboard(session_id)
    \/ \E session_id \in SessionIds, path \in ProtectedPages \ {"/dashboard"} :
           AuthProtectedPage(session_id, path)
    \/ \E session_id \in SessionIds, field \in LogoutFields :
           AuthLogout(session_id, field)
    \/ \E seconds \in AuthAdvances : AuthTick(seconds)

\* requests to auth-and-session
SpecAuth == InitAuth /\ [][NextAuth]_vars
====
